---- MODULE Spec2Model ----
(***************************************************************************)
(* A model of mace/modules/blocks.py: the normalization layers             *)
(* (SwitchNorm1d, EigenvalueNorm), the atomic-energies block, the          *)
(* interaction blocks and the matrix function block.                       *)
(*                                                                         *)
(* Tensors are nested sequences.  Real numbers are exact: a number is a    *)
(* polynomial in two indeterminates, the matrix regulariser epsilon (the   *)
(* 1e-9 of MatrixFunctionBlock.forward) and the momentum of the running    *)
(* statistics, with integer coefficients over a common positive            *)
(* denominator; the denominator 0 stands for NaN.                          *)
(***************************************************************************)
EXTENDS Integers, Sequences, FiniteSets, TLC

VARIABLES
    focus,      \* which block instance this behaviour exercises
    sn,         \* a SwitchNorm1d instance
    en,         \* an EigenvalueNorm instance
    nTrain,     \* number of training-mode forward passes so far
    ae,         \* an AtomicEnergiesBlock instance
    ib,         \* an interaction block instance
    pb,         \* an EquivariantProductBasisBlock instance
    mf,         \* a MatrixFunctionBlock instance
    batch,      \* the graph batch the blocks are applied to
    last        \* the last call: its name, its input and what it returned

vars == <<focus, sn, en, nTrain, ae, ib, pb, mf, batch, last>>

(***************************************************************************)
(* Bounds of the model.                                                    *)
(***************************************************************************)
MaxTrain == 2       \* training-mode forward passes per behaviour
MaxBatch == 2       \* rows of a SwitchNorm1d input, graphs of a batch
MaxN == 2           \* padded matrix size of an EigenvalueNorm input
MaxElements == 3    \* chemical elements of an atomic-energies table
MaxNodes == 2       \* nodes of a graph
MaxEdges == 2       \* edges of a graph
MaxAtoms == 3       \* nodes of a graph of a matrix function block

\* num_features of the SwitchNorm1d instance and of the EigenvalueNorm one
SNFeatures == 2

ENFeatures == 1

(***************************************************************************)
(* Exact arithmetic.                                                       *)
(***************************************************************************)
Abs(a) == IF a < 0 THEN -a ELSE a

Max(a, b) == IF a < b THEN b ELSE a

\* a sequence given by a rule, materialised element by element
Strict(s) == s \o <<>>

RECURSIVE Gcd(_, _)
Gcd(a, b) == IF b = 0 THEN a ELSE Gcd(b, a % b)

(***************************************************************************)
(* Polynomials in epsilon: sequences of integer coefficients, lowest       *)
(* degree first, without trailing zeros.                                   *)
(***************************************************************************)
RECURSIVE Trim(_)
Trim(p) ==
    IF Len(p) = 0 THEN <<>>
    ELSE IF p[Len(p)] = 0 THEN Trim(SubSeq(p, 1, Len(p) - 1))
    ELSE p

Coef(p, k) == IF k <= Len(p) THEN p[k] ELSE 0

RECURSIVE PolyGcd(_, _)
PolyGcd(p, g) ==
    IF Len(p) = 0 THEN g ELSE PolyGcd(Tail(p), Gcd(g, Abs(Head(p))))

PAdd(p, q) ==
    Trim(Strict([k \in 1..Max(Len(p), Len(q)) |-> Coef(p, k) + Coef(q, k)]))

PScale(a, p) == Trim(Strict([k \in 1..Len(p) |-> a * p[k]]))

PDiv(p, g) == Strict([k \in 1..Len(p) |-> p[k] \div g])

RECURSIVE PConv(_, _, _, _)
PConv(p, q, k, i) ==
    IF i > Len(p) THEN 0
    ELSE (IF k - i + 1 >= 1 /\ k - i + 1 <= Len(q) THEN p[i] * q[k - i + 1] ELSE 0)
         + PConv(p, q, k, i + 1)

PMul(p, q) ==
    IF Len(p) = 0 \/ Len(q) = 0 THEN <<>>
    ELSE Strict([k \in 1..(Len(p) + Len(q) - 1) |-> PConv(p, q, k, 1)])

(***************************************************************************)
(* Polynomials in the momentum whose coefficients are polynomials in       *)
(* epsilon, without trailing zero coefficients.  The momentum of a         *)
(* normalization layer is kept as an indeterminate: an identity between    *)
(* two such polynomials holds for every momentum, the default 0.997        *)
(* included, and no power of 1000 enters a denominator.                    *)
(***************************************************************************)
RECURSIVE MTrim(_)
MTrim(P) ==
    IF Len(P) = 0 THEN <<>>
    ELSE IF Len(P[Len(P)]) = 0 THEN MTrim(SubSeq(P, 1, Len(P) - 1))
    ELSE P

MCoef(P, k) == IF k <= Len(P) THEN P[k] ELSE <<>>

RECURSIVE MGcd(_, _)
MGcd(P, g) == IF Len(P) = 0 THEN g ELSE MGcd(Tail(P), PolyGcd(Head(P), g))

MAdd(P, R) ==
    MTrim(Strict([k \in 1..Max(Len(P), Len(R)) |-> PAdd(MCoef(P, k), MCoef(R, k))]))

MScale(a, P) == MTrim(Strict([k \in 1..Len(P) |-> PScale(a, P[k])]))

RECURSIVE MConv(_, _, _, _)
MConv(P, R, k, i) ==
    IF i > Len(P) THEN <<>>
    ELSE PAdd(IF k - i + 1 >= 1 /\ k - i + 1 <= Len(R)
              THEN PMul(P[i], R[k - i + 1]) ELSE <<>>,
              MConv(P, R, k, i + 1))

MMul(P, R) ==
    IF Len(P) = 0 \/ Len(R) = 0 THEN <<>>
    ELSE MTrim(Strict([k \in 1..(Len(P) + Len(R) - 1) |-> MConv(P, R, k, 1)]))

(***************************************************************************)
(* Numbers: [n |-> polynomial, d |-> positive denominator], in lowest      *)
(* terms; d = 0 is NaN.                                                    *)
(***************************************************************************)
NaN == [n |-> <<>>, d |-> 0]

\* a value kept as an expression: anything that is not a number record
IsTerm(a) == "n" \notin DOMAIN a

Term(op, a, b) == [op |-> op, a |-> a, b |-> b]

IsNaN(a) == a.d = 0

Q(P, d) ==
    LET g == MGcd(P, d)
    IN  IF Len(P) = 0 THEN [n |-> <<>>, d |-> 1]
        ELSE [n |-> Strict([k \in 1..Len(P) |-> PDiv(P[k], g)]), d |-> d \div g]

\* the fraction a / b in lowest terms
Rat(a, b) ==
    IF b = 0 THEN NaN
    ELSE IF a = 0 THEN [n |-> <<>>, d |-> 1]
    ELSE LET g == Gcd(Abs(a), Abs(b))
         IN  [n |-> << <<(IF b < 0 THEN -a ELSE a) \div g>> >>, d |-> Abs(b) \div g]

Num(a) == Rat(a, 1)

IsZero(a) == a.d # 0 /\ Len(a.n) = 0

\* a nonzero fraction, free of epsilon and of the momentum
IsPlain(a) == Len(a.n) = 1 /\ Len(a.n[1]) = 1

QAdd(a, b) ==
    IF IsTerm(a) \/ IsTerm(b) THEN Term("add", a, b)
    ELSE IF IsNaN(a) \/ IsNaN(b) THEN NaN
    ELSE IF IsZero(a) THEN b
    ELSE IF IsZero(b) THEN a
    ELSE LET g == Gcd(a.d, b.d)
         IN  IF IsPlain(a) /\ IsPlain(b)
             THEN Rat(a.n[1][1] * (b.d \div g) + b.n[1][1] * (a.d \div g),
                      (a.d \div g) * b.d)
             ELSE Q(MAdd(MScale(b.d \div g, a.n), MScale(a.d \div g, b.n)),
                    (a.d \div g) * b.d)

QNeg(a) ==
    IF IsTerm(a) THEN Term("neg", a, a)
    ELSE IF IsNaN(a) THEN NaN ELSE [n |-> MScale(-1, a.n), d |-> a.d]

QSub(a, b) == QAdd(a, QNeg(b))

QMul(a, b) ==
    IF IsTerm(a) \/ IsTerm(b) THEN Term("mul", a, b)
    ELSE IF IsNaN(a) \/ IsNaN(b) THEN NaN
    ELSE IF IsZero(a) \/ IsZero(b) THEN Num(0)
    ELSE IF IsPlain(a) /\ IsPlain(b)
    THEN Rat(a.n[1][1] * b.n[1][1], a.d * b.d)
    ELSE Q(MMul(a.n, b.n), a.d * b.d)

\* a / k for an integer k; 0/0 and x/0 are not numbers
QDivInt(a, k) ==
    IF IsTerm(a) THEN Term("div", a, k)
    ELSE IF IsNaN(a) \/ k = 0 THEN NaN
    ELSE IF IsZero(a) THEN a
    ELSE IF IsPlain(a) THEN Rat(a.n[1][1], a.d * k)
    ELSE IF k < 0 THEN Q(MScale(-1, a.n), a.d * (-k))
    ELSE Q(a.n, a.d * k)

RECURSIVE QSum(_)
QSum(s) == IF Len(s) = 0 THEN Num(0) ELSE QAdd(Head(s), QSum(Tail(s)))

(***************************************************************************)
(* Tensors: [shape |-> <<d1, ..., dk>>, v |-> nested sequences].           *)
(***************************************************************************)
Tensor(shape, v) == [shape |-> shape, v |-> v]

NoTensor == Tensor(<<>>, <<>>)

Dim(t) == Len(t.shape)

SameTensor(a, b) == a.shape = b.shape /\ a.v = b.v

Mean(s) == QDivInt(QSum(s), Len(s))

\* torch.Tensor.var: the unbiased estimator, NaN for a single element
Var(s) ==
    LET m == Mean(s)
    IN  QDivInt(QSum(Strict([k \in 1..Len(s) |-> QMul(QSub(s[k], m), QSub(s[k], m))])),
                Len(s) - 1)

\* the value c / sqrt(r) * w + b, kept unevaluated
Normalized(c, r, w, b) == [c |-> c, r |-> r, w |-> w, b |-> b]

\* the indeterminate standing for the momentum
Momentum == [n |-> << <<>>, <<1>> >>, d |-> 1]

NormEps == Rat(1, 100000)

\* a moving average with the two weights exchanged
MovingAverage_Swapped(old, stat) ==
    QAdd(QMul(old, QSub(Num(1), Momentum)), QMul(Momentum, stat))

MovingAverage(old, stat) ==
    QAdd(QMul(old, Momentum), QMul(QSub(Num(1), Momentum), stat))

(***************************************************************************)
(* SwitchNorm1d                                                            *)
(***************************************************************************)
SwitchNorm1dInit(num_features, uma) ==
    [ running_mean |-> Strict([f \in 1..num_features |-> Num(0)]),
      running_var  |-> Strict([f \in 1..num_features |-> Num(0)]),
      weight       |-> Strict([f \in 1..num_features |-> Num(1)]),
      bias         |-> Strict([f \in 1..num_features |-> Num(0)]),
      using_moving_average |-> uma,
      training     |-> TRUE ]

\* a reset that forgets running_var
SwitchNorm1dReset_MeanOnly(l) ==
    [l EXCEPT !.running_mean = Strict([f \in 1..Len(l.running_mean) |-> Num(0)]),
              !.weight       = Strict([f \in 1..Len(l.running_mean) |-> Num(1)]),
              !.bias         = Strict([f \in 1..Len(l.running_mean) |-> Num(0)])]

SwitchNorm1dReset(l) ==
    [l EXCEPT !.running_mean = Strict([f \in 1..Len(l.running_mean) |-> Num(0)]),
              !.running_var  = Strict([f \in 1..Len(l.running_mean) |-> Num(0)]),
              !.weight       = Strict([f \in 1..Len(l.running_mean) |-> Num(1)]),
              !.bias         = Strict([f \in 1..Len(l.running_mean) |-> Num(0)])]

\* softmax of mean_weight and of var_weight, both ones(2)
SwitchBlend == <<Rat(1, 2), Rat(1, 2)>>

SNColumn(x, f) == Strict([b \in 1..x.shape[1] |-> x.v[b][f]])

\* the running-statistics update of a training-mode forward pass
SwitchNorm1dTrainUpdate(l, x) ==
    LET mean_bn == Strict([f \in 1..x.shape[2] |-> Mean(SNColumn(x, f))])
             var_bn  == Strict([f \in 1..x.shape[2] |-> Var(SNColumn(x, f))])
    IN  IF l.using_moving_average
             THEN [l EXCEPT
                     !.running_mean = Strict([f \in 1..Len(l.running_mean) |->
                         MovingAverage(l.running_mean[f], mean_bn[f])]),
                     !.running_var = Strict([f \in 1..Len(l.running_mean) |->
                         MovingAverage(l.running_var[f], var_bn[f])])]
             ELSE [l EXCEPT
                     !.running_mean = Strict([f \in 1..Len(l.running_mean) |->
                         QAdd(l.running_mean[f], mean_bn[f])]),
                     !.running_var = Strict([f \in 1..Len(l.running_mean) |->
                         QAdd(l.running_var[f],
                              QAdd(QMul(mean_bn[f], mean_bn[f]), var_bn[f]))])]

\* a forward pass that updates the buffers whatever the mode
SwitchNorm1dUpdate_AnyMode(l, x) == SwitchNorm1dTrainUpdate(l, x)

\* the layer after the running-statistics update of one forward pass
SwitchNorm1dUpdate(l, x) ==
    IF ~l.training THEN l ELSE SwitchNorm1dTrainUpdate(l, x)

SwitchNorm1dOutput(l, x) ==
    LET mean_ln == Strict([b \in 1..x.shape[1] |-> Mean(x.v[b])])
        var_ln  == Strict([b \in 1..x.shape[1] |-> Var(x.v[b])])
        mean_bn == IF l.training
                   THEN Strict([f \in 1..x.shape[2] |-> Mean(SNColumn(x, f))])
                   ELSE l.running_mean
        var_bn  == IF l.training
                   THEN Strict([f \in 1..x.shape[2] |-> Var(SNColumn(x, f))])
                   ELSE l.running_var
        mean(b, f) == QAdd(QMul(SwitchBlend[1], mean_ln[b]),
                           QMul(SwitchBlend[2], mean_bn[f]))
        var(b, f)  == QAdd(QMul(SwitchBlend[1], var_ln[b]),
                           QMul(SwitchBlend[2], var_bn[f]))
    IN  Tensor(x.shape,
               Strict([b \in 1..x.shape[1] |-> Strict([f \in 1..x.shape[2] |->
                   Normalized(QSub(x.v[b][f], mean(b, f)),
                              QAdd(var(b, f), NormEps),
                              l.weight[f], l.bias[f])])]))

SwitchNorm1dCheckInputDim(x) == Dim(x) = 2

(***************************************************************************)
(* EigenvalueNorm                                                          *)
(***************************************************************************)
EigenvalueNormInit(num_features, uma) ==
    [ running_mean |-> Strict([f \in 1..num_features |-> Num(0)]),
      running_var  |-> Strict([f \in 1..num_features |-> Num(1)]),
      weight       |-> Strict([f \in 1..num_features |-> Num(1)]),
      bias         |-> Strict([f \in 1..num_features |-> Num(0)]),
      using_moving_average |-> uma,
      training     |-> TRUE ]

EigenvalueNormReset(l) ==
    [l EXCEPT !.running_mean = Strict([f \in 1..Len(l.running_mean) |-> Num(0)]),
              !.running_var  = Strict([f \in 1..Len(l.running_mean) |-> Num(1)]),
              !.bias         = Strict([f \in 1..Len(l.running_mean) |-> Num(0)]),
              !.weight       = Strict([f \in 1..Len(l.running_mean) |-> Num(1)])]

EigenvalueNormCheckInputDim(l, x) ==
    Dim(x) = 4 /\ x.shape[2] = Len(l.running_mean)

\* a mask that takes every position for a node
ReformatMask_Ones(x, mask) ==
    Strict([b \in 1..x.shape[1] |-> Strict([i \in 1..x.shape[3] |-> Strict([j \in 1..x.shape[4] |->
        1])])])

\* mask[b][i][j] of the valid-node block; all ones when no mask is given
ReformatMask(x, mask) ==
    Strict([b \in 1..x.shape[1] |-> Strict([i \in 1..x.shape[3] |-> Strict([j \in 1..x.shape[4] |->
        IF mask.none THEN 1 ELSE mask.v[b][i] * mask.v[b][j]])])])

MatMul(A, B, n) ==
    Strict([i \in 1..n |-> Strict([j \in 1..n |->
        QSum(Strict([k \in 1..n |-> QMul(A[i][k], B[k][j])]))])])

RECURSIVE IntSum(_)
IntSum(s) == IF Len(s) = 0 THEN 0 ELSE Head(s) + IntSum(Tail(s))

\* trace statistics with the variance divided by n instead of n - 1
TraceStats_Biased(M, m, N) ==
    LET n  == IntSum(Strict([i \in 1..N |-> m[i][i]]))
        P  == MatMul(M, M, N)
        trace == QSum(Strict([i \in 1..N |-> QMul(M[i][i], Num(m[i][i]))]))
        trace_square ==
            QSum(Strict([i \in 1..N |-> QMul(P[i][i], Num(m[i][i]))]))
    IN  <<QDivInt(trace, n),
          QSub(QDivInt(trace_square, n), QDivInt(QMul(trace, trace), n * n))>>

\* trace statistics of one matrix of the batch: <<mean, variance>>
TraceStats(M, m, N) ==
    LET n  == IntSum(Strict([i \in 1..N |-> m[i][i]]))
        n2 == Max(n - 1, 1)
        matrix_squared == LET P == MatMul(M, M, N)
                          IN  Strict([i \in 1..N |-> Strict([j \in 1..N |->
                                  QMul(P[i][j], Num(m[i][j]))])])
        trace == QSum(Strict([i \in 1..N |-> QMul(M[i][i], Num(m[i][i]))]))
        trace_square ==
            QSum(Strict([i \in 1..N |-> QMul(matrix_squared[i][i], Num(m[i][i]))]))
        mean == QDivInt(trace, n)
        variance == QSub(QDivInt(trace_square, n2),
                         QDivInt(QMul(trace, trace), n * n2))
    IN  <<mean, variance>>

\* _mean_and_variance_trace: per channel, averaged over the batch
MeanAndVarianceTrace(x, m4) ==
    LET B == x.shape[1]
        N == x.shape[3]
        st(b, f) == TraceStats(x.v[b][f], m4[b], N)
    IN  Strict([f \in 1..x.shape[2] |->
            << Mean(Strict([b \in 1..B |-> st(b, f)[1]])),
               Mean(Strict([b \in 1..B |-> st(b, f)[2]])) >>])

EigenvalueNormUpdate(l, x, mask) ==
    IF ~l.training THEN l
    ELSE LET s == MeanAndVarianceTrace(x, ReformatMask(x, mask))
         IN  IF l.using_moving_average
             THEN [l EXCEPT
                     !.running_mean = Strict([f \in 1..Len(l.running_mean) |->
                         MovingAverage(l.running_mean[f], s[f][1])]),
                     !.running_var = Strict([f \in 1..Len(l.running_mean) |->
                         MovingAverage(l.running_var[f], s[f][2])])]
             ELSE [l EXCEPT
                     !.running_mean = Strict([f \in 1..Len(l.running_mean) |->
                         QAdd(l.running_mean[f], s[f][1])]),
                     !.running_var = Strict([f \in 1..Len(l.running_mean) |->
                         QAdd(l.running_var[f], s[f][2])])]

\* the output, computed from the buffers of the layer l (after the update)
EigenvalueNormOutput(l, x, mask) ==
    LET m4 == ReformatMask(x, mask)
    IN  Tensor(x.shape,
          Strict([b \in 1..x.shape[1] |-> Strict([f \in 1..x.shape[2] |->
            Strict([i \in 1..x.shape[3] |-> Strict([j \in 1..x.shape[4] |->
              Normalized(
                QMul(QSub(x.v[b][f][i][j],
                          IF i = j THEN l.running_mean[f] ELSE Num(0)),
                     Num(m4[b][i][j])),
                QAdd(l.running_var[f], NormEps),
                l.weight[f],
                IF i = j THEN l.bias[f] ELSE Num(0))])])])]))

(***************************************************************************)
(* The calls of the normalization layers.                                  *)
(***************************************************************************)
\* the value of a variable that a behaviour does not use
NoBlock == [none |-> TRUE]

NoMask == [none |-> TRUE, v |-> <<>>]

Mask(v) == [none |-> FALSE, v |-> v]

Returned(t) == [err |-> "none", val |-> t]

Raised(e) == [err |-> e, val |-> NoTensor]

Buffers(l) == [running_mean |-> l.running_mean, running_var |-> l.running_var]

Call(op, x, mask, out, training, pre) ==
    [op |-> op, x |-> x, mask |-> mask, out |-> out, training |-> training,
     pre |-> pre, aux |-> NoBlock]

\* a call of a block without running statistics; aux is what it computed
\* on the way
BlockCall(op, out, aux) ==
    [op |-> op, x |-> NoTensor, mask |-> NoMask, out |-> out,
     training |-> FALSE, pre |-> NoBlock, aux |-> aux]

NoCall ==
    [op |-> "init", x |-> NoTensor, mask |-> NoMask, out |-> Raised("none"),
     training |-> TRUE, pre |-> Buffers(SwitchNorm1dInit(SNFeatures, TRUE)),
     aux |-> NoBlock]

SNEntry(k, b, f) == IF k = 1 THEN b + f - 2 ELSE b * f

SNTensor(B, k) ==
    Tensor(<<B, SNFeatures>>,
           Strict([b \in 1..B |-> Strict([f \in 1..SNFeatures |->
               Num(SNEntry(k, b, f))])]))

\* every batch size, a second batch of the largest size, and a 1-D input
SNInputs ==
    { SNTensor(B, 1) : B \in 1..MaxBatch }
    \cup { SNTensor(MaxBatch, 2),
           Tensor(<<SNFeatures>>, Strict([f \in 1..SNFeatures |-> Num(f)])) }

ENKinds == {1, 2}

\* entry (i, j) of the matrix of graph g: a diagonal matrix or a dense,
\* asymmetric one
ENEntry(k, g, i, j) ==
    IF k = 1 THEN (IF i = j THEN i + g - 1 ELSE 0)
    ELSE (IF i = j THEN g ELSE IF i < j THEN 2 ELSE -1)

\* graph g of a batch padded to N nodes has this many valid nodes
ENSize(N, g) == Max(1, N - g + 1)

ENTensor(B, C, N, k) ==
    Tensor(<<B, C, N, N>>,
           Strict([g \in 1..B |-> Strict([f \in 1..C |-> Strict([i \in 1..N |-> Strict([j \in 1..N |->
               Num(ENEntry(k, g, i, j))])])])]))

ENMask(B, N) == Mask(Strict([g \in 1..B |-> Strict([i \in 1..N |->
                         IF i <= ENSize(N, g) THEN 1 ELSE 0])]))

\* a batch of one graph at every padded size, every batch size at the
\* largest padded size, one call without a mask, and two malformed inputs
ENInputs ==
    { <<ENTensor(1, ENFeatures, N, k), ENMask(1, N)>> :
        N \in 1..MaxN, k \in ENKinds }
    \cup { <<ENTensor(B, ENFeatures, MaxN, 2), ENMask(B, MaxN)>> :
        B \in 1..MaxBatch }
    \cup { <<ENTensor(1, ENFeatures, MaxN, 2), NoMask>>,
           <<ENTensor(1, ENFeatures + 1, 1, 1), ENMask(1, 1)>>,
           <<Tensor(<<1, 1, 1>>, <<<<<<Num(1)>>>>>>), ENMask(1, 1)>> }

SNForward(x) ==
    /\ focus = "SwitchNorm1d"
    /\ IF ~SwitchNorm1dCheckInputDim(x)
       THEN /\ last' = Call("sn_forward", x, NoMask, Raised("ValueError"),
                            sn.training, Buffers(sn))
            /\ UNCHANGED <<sn, nTrain>>
       ELSE /\ sn.training => nTrain < MaxTrain
            /\ sn' = SwitchNorm1dUpdate(sn, x)
            /\ nTrain' = IF sn.training THEN nTrain + 1 ELSE nTrain
            /\ last' = Call("sn_forward", x, NoMask,
                            Returned(SwitchNorm1dOutput(sn, x)),
                            sn.training, Buffers(sn))
    /\ UNCHANGED <<focus, pb, en, ae, ib, mf, batch>>

SNResetParameters ==
    /\ focus = "SwitchNorm1d"
    /\ sn' = SwitchNorm1dReset(sn)
    /\ last' = Call("sn_reset", NoTensor, NoMask, Raised("none"),
                    sn.training, Buffers(sn))
    /\ UNCHANGED <<focus, pb, en, nTrain, ae, ib, mf, batch>>

SNSetTraining(mode) ==
    /\ focus = "SwitchNorm1d"
    /\ sn' = [sn EXCEPT !.training = mode]
    /\ last' = Call("sn_train", NoTensor, NoMask, Raised("none"),
                    sn.training, Buffers(sn))
    /\ UNCHANGED <<focus, pb, en, nTrain, ae, ib, mf, batch>>

\* a forward pass that checks the channel count only after the update
ENForward_CheckLast(x, mask) ==
    /\ focus = "EigenvalueNorm"
    /\ IF Dim(x) # 4
       THEN /\ last' = Call("en_forward", x, mask, Raised("ValueError"),
                            en.training, Buffers(en))
            /\ UNCHANGED <<en, nTrain>>
       ELSE /\ en.training => nTrain < MaxTrain
            /\ en' = EigenvalueNormUpdate(en, x, mask)
            /\ nTrain' = IF en.training THEN nTrain + 1 ELSE nTrain
            /\ last' = Call("en_forward", x, mask,
                            IF EigenvalueNormCheckInputDim(en, x)
                            THEN Returned(EigenvalueNormOutput(en', x, mask))
                            ELSE Raised("ValueError"),
                            en.training, Buffers(en))
    /\ UNCHANGED <<focus, pb, sn, ae, ib, mf, batch>>

\* an output computed from the buffers as they were before the pass
ENForward_StaleBuffers(x, mask) ==
    /\ focus = "EigenvalueNorm"
    /\ IF ~EigenvalueNormCheckInputDim(en, x)
       THEN /\ last' = Call("en_forward", x, mask, Raised("ValueError"),
                            en.training, Buffers(en))
            /\ UNCHANGED <<en, nTrain>>
       ELSE /\ en.training => nTrain < MaxTrain
            /\ en' = EigenvalueNormUpdate(en, x, mask)
            /\ nTrain' = IF en.training THEN nTrain + 1 ELSE nTrain
            /\ last' = Call("en_forward", x, mask,
                            Returned(EigenvalueNormOutput(en, x, mask)),
                            en.training, Buffers(en))
    /\ UNCHANGED <<focus, pb, sn, ae, ib, mf, batch>>

ENForward(x, mask) ==
    /\ focus = "EigenvalueNorm"
    /\ IF ~EigenvalueNormCheckInputDim(en, x)
       THEN /\ last' = Call("en_forward", x, mask, Raised("ValueError"),
                            en.training, Buffers(en))
            /\ UNCHANGED <<en, nTrain>>
       ELSE /\ en.training => nTrain < MaxTrain
            /\ en' = EigenvalueNormUpdate(en, x, mask)
            /\ nTrain' = IF en.training THEN nTrain + 1 ELSE nTrain
            /\ last' = Call("en_forward", x, mask,
                            Returned(EigenvalueNormOutput(en', x, mask)),
                            en.training, Buffers(en))
    /\ UNCHANGED <<focus, pb, sn, ae, ib, mf, batch>>

ENResetParameters ==
    /\ focus = "EigenvalueNorm"
    /\ en' = EigenvalueNormReset(en)
    /\ last' = Call("en_reset", NoTensor, NoMask, Raised("none"),
                    en.training, Buffers(en))
    /\ UNCHANGED <<focus, pb, sn, nTrain, ae, ib, mf, batch>>

ENSetTraining(mode) ==
    /\ focus = "EigenvalueNorm"
    /\ en' = [en EXCEPT !.training = mode]
    /\ last' = Call("en_train", NoTensor, NoMask, Raised("none"),
                    en.training, Buffers(en))
    /\ UNCHANGED <<focus, pb, sn, nTrain, ae, ib, mf, batch>>

WithParameters(l, p, n) ==
    [l EXCEPT !.weight = Strict([f \in 1..n |-> Num(p[1])]),
              !.bias   = Strict([f \in 1..n |-> Num(p[2])])]

\* using_moving_average with the weight and bias of the layer
Configurations == {<<TRUE, <<1, 0>>>>, <<TRUE, <<2, 1>>>>, <<FALSE, <<1, 0>>>>}

\* a layer as constructed, or with learned weight and bias loaded into it
InitNorm ==
    /\ focus \in {"SwitchNorm1d", "EigenvalueNorm"}
    /\ \E c \in Configurations :
         LET uma == c[1]
             p == c[2]
         IN
         /\ sn = IF focus = "SwitchNorm1d"
                 THEN WithParameters(SwitchNorm1dInit(SNFeatures, uma), p, SNFeatures)
                 ELSE SwitchNorm1dInit(SNFeatures, TRUE)
         /\ en = IF focus = "EigenvalueNorm"
                 THEN WithParameters(EigenvalueNormInit(ENFeatures, uma), p, ENFeatures)
                 ELSE EigenvalueNormInit(ENFeatures, TRUE)
    /\ nTrain = 0
    /\ ae = NoBlock
    /\ ib = NoBlock
    /\ mf = NoBlock
    /\ batch = NoBlock
    /\ pb = NoBlock
    /\ last = NoCall

NextNorm ==
    \/ \E x \in SNInputs : SNForward(x)
    \/ SNResetParameters
    \/ \E mode \in BOOLEAN : SNSetTraining(mode)
    \/ \E xm \in ENInputs : ENForward(xm[1], xm[2])
    \/ ENResetParameters
    \/ \E mode \in BOOLEAN : ENSetTraining(mode)

SpecNorm == InitNorm /\ [][NextNorm]_vars

(***************************************************************************)
(* AtomicEnergiesBlock                                                     *)
(***************************************************************************)
AtomicEnergiesInit(atomic_energies) == [atomic_energies |-> atomic_energies]

\* torch.matmul(x, E) of a vector or of a matrix of rows with the vector E
MatVec(x, E) ==
    IF Dim(x) = 1
    THEN Tensor(<<>>, QSum(Strict([a \in 1..Len(E) |-> QMul(x.v[a], E[a])])))
    ELSE Tensor(<<x.shape[1]>>,
                Strict([b \in 1..x.shape[1] |->
                    QSum(Strict([a \in 1..Len(E) |-> QMul(x.v[b][a], E[a])]))]))

\* a product that reads the table one element too far
AtomicEnergiesForward_Shifted(l, x) ==
    MatVec(x, Strict([a \in 1..Len(l.atomic_energies) |->
                  l.atomic_energies[(a % Len(l.atomic_energies)) + 1]]))

AtomicEnergiesForward(l, x) == MatVec(x, l.atomic_energies)

Energies == {-3, 0, 5}

EnergyTables ==
    UNION { [1..n -> Energies] : n \in 1..MaxElements }

OneHot(i, n) == Strict([a \in 1..n |-> Num(IF a = i THEN 1 ELSE 0)])

\* one-hot vectors, batches of one-hot rows, and a row that is not one-hot
AEInputs(n) ==
    { Tensor(<<n>>, OneHot(i, n)) : i \in 1..n }
    \cup { Tensor(<<Len(r), n>>, Strict([b \in 1..Len(r) |-> OneHot(r[b], n)])) :
             r \in UNION { [1..B -> 1..n] : B \in 1..MaxBatch } }
    \cup { Tensor(<<n>>, Strict([a \in 1..n |-> Num(1)])) }

AEForward(x) ==
    /\ focus = "AtomicEnergiesBlock"
    /\ last' = Call("ae_forward", x, NoMask,
                    Returned(AtomicEnergiesForward(ae, x)), FALSE, ae)
    /\ UNCHANGED <<focus, pb, sn, en, nTrain, ae, ib, mf, batch>>

InitEnergies ==
    /\ focus = "AtomicEnergiesBlock"
    /\ \E E \in EnergyTables :
         ae = AtomicEnergiesInit(Strict([a \in 1..Len(E) |-> Num(E[a])]))
    /\ sn = NoBlock
    /\ en = NoBlock
    /\ nTrain = 0
    /\ ib = NoBlock
    /\ mf = NoBlock
    /\ batch = NoBlock
    /\ pb = NoBlock
    /\ last = NoCall

NextEnergies ==
    \E x \in AEInputs(Len(ae.atomic_energies)) : AEForward(x)

SpecEnergies == InitEnergies /\ [][NextEnergies]_vars

\* the element a row selects, 0 when the row is not one-hot
Selected(row) ==
    LET hot == {a \in 1..Len(row) : row[a] = Num(1)}
        cold == {a \in 1..Len(row) : row[a] = Num(0)}
    IN  IF Cardinality(hot) = 1 /\ Cardinality(cold) = Len(row) - 1
        THEN CHOOSE a \in hot : TRUE ELSE 0

\* C7: AtomicEnergiesBlock.forward on the one-hot vector of element i returns
\* E[i], on a batch of one-hot rows the selected energy of every row, and
\* leaves the table as it was.
C7_OneHotLookup ==
    last.op = "ae_forward" =>
        /\ ae = last.pre
        /\ (Dim(last.x) = 1 /\ Selected(last.x.v) # 0) =>
              /\ last.out.val.shape = <<>>
              /\ last.out.val.v = ae.atomic_energies[Selected(last.x.v)]
        /\ (Dim(last.x) = 2
              /\ \A b \in 1..last.x.shape[1] : Selected(last.x.v[b]) # 0) =>
              /\ last.out.val.shape = <<last.x.shape[1]>>
              /\ \A b \in 1..last.x.shape[1] :
                    last.out.val.v[b] =
                        ae.atomic_energies[Selected(last.x.v[b])]

\* a batch of two one-hot rows that select elements with different energies
C7_Witness ==
    /\ last.op = "ae_forward"
    /\ Dim(last.x) = 2
    /\ last.x.shape[1] = 2
    /\ Selected(last.x.v[1]) # 0
    /\ Selected(last.x.v[2]) # 0
    /\ last.out.val.v[1] # last.out.val.v[2]

(***************************************************************************)
(* Interaction blocks.  The layers of e3nn are the external tensor         *)
(* engine; the model instantiates them on scalar (0e) features with        *)
(* FeatureDim channels: a linear map scales, a tensor product multiplies   *)
(* channel by channel.                                                     *)
(***************************************************************************)
FeatureDim == 2

NumElements == 2

NumBasis == 2

VZero(n) == Strict([c \in 1..n |-> Num(0)])

VAdd(u, v) == Strict([c \in 1..Len(u) |-> QAdd(u[c], v[c])])

VScale(a, v) == Strict([c \in 1..Len(v) |-> QMul(a, v[c])])

\* x / q for a nonzero fraction q
QDiv(x, q) == QDivInt(QMul(x, Num(q.d)), q.n[1][1])

VDiv(v, q) == Strict([c \in 1..Len(v) |-> QDiv(v[c], q)])

\* scatter_sum(src, index, dim=0, dim_size): out[index[e]] += src[e], edge
\* after edge, from zeros
RECURSIVE ScatterSum(_, _, _, _)
ScatterSum(src, index, dim_size, width) ==
    IF Len(src) = 0 THEN Strict([i \in 1..dim_size |-> VZero(width)])
    ELSE LET k == Len(src)
             out == ScatterSum(SubSeq(src, 1, k - 1), SubSeq(index, 1, k - 1),
                               dim_size, width)
         IN  [out EXCEPT ![index[k]] = VAdd(out[index[k]], src[k])]

\* reshape_irreps for scalar irreps: [n_nodes, channels, (lmax + 1)**2]
ReshapeIrreps(rows) ==
    Tensor(<<Len(rows), FeatureDim, 1>>,
           Strict([i \in 1..Len(rows) |->
               Strict([c \in 1..FeatureDim |-> <<rows[i][c]>>])]))

Flat(rows) == Tensor(<<Len(rows), FeatureDim>>, rows)

\* o3.Linear of linear_up and of linear
LinearUp(l, x) == VScale(l.linear_up, x)

Linear(l, x) == VScale(l.linear, x)

\* the element a one-hot row of node_attrs encodes, as a number
ElementOf(attrs) ==
    QSum(Strict([a \in 1..Len(attrs) |-> QMul(Num(a), attrs[a])]))

\* o3.FullyConnectedTensorProduct(features, node_attrs)
SkipTP(x, attrs) == VScale(ElementOf(attrs), x)

\* o3.TensorProduct(node_feats, edge_attrs, weights), weights per edge
ConvTP(x, attr, w) ==
    Strict([c \in 1..Len(x) |-> QMul(w[c], QMul(x[c], attr[1]))])

\* TensorProductWeightsBlock.forward: einsum("be, ba, aek -> bk")
TensorProductWeights(l, attrs, edge_feats) ==
    Strict([k \in 1..FeatureDim |->
        QSum(Strict([e \in 1..NumBasis |->
            QSum(Strict([a \in 1..NumElements |->
                QMul(QMul(edge_feats[e], attrs[a]), l.weights[a][e][k])]))]))])

\* nn.FullyConnectedNet over the edge features (no bias: zero maps to zero)
RadialMLP(edge_feats) ==
    LET t == QSum(edge_feats)
    IN  Strict([k \in 1..FeatureDim |-> QMul(Num(k), QMul(t, t))])

Variants ==
    { "ResidualElementDependentInteractionBlock",
      "AgnosticNonlinearInteractionBlock",
      "AgnosticResidualNonlinearInteractionBlock",
      "RealAgnosticInteractionBlock",
      "RealAgnosticResidualInteractionBlock" }

InteractionBlockInit(variant, avg_num_neighbors) ==
    [ variant |-> variant,
      avg_num_neighbors |-> avg_num_neighbors,
      linear_up |-> Num(2),
      linear |-> Num(3),
      weights |-> Strict([a \in 1..NumElements |-> Strict([e \in 1..NumBasis |->
                      Strict([k \in 1..FeatureDim |-> Num(a + e + k)])])]) ]

Sender(b) == b.edge_index[1]

Receiver(b) == b.edge_index[2]

NumEdges(b) == Len(b.edge_index[1])

\* tp_weights of every edge
TPWeights(l, b) ==
    Strict([e \in 1..NumEdges(b) |->
        IF l.variant = "ResidualElementDependentInteractionBlock"
        THEN TensorProductWeights(l, b.node_attrs[Sender(b)[e]], b.edge_feats[e])
        ELSE RadialMLP(b.edge_feats[e])])

\* mji = conv_tp(node_feats[sender], edge_attrs, tp_weights)
EdgeMessages(l, b) ==
    LET up == Strict([i \in 1..b.num_nodes |-> LinearUp(l, b.node_feats[i])])
        w == TPWeights(l, b)
    IN  Strict([e \in 1..NumEdges(b) |->
            ConvTP(up[Sender(b)[e]], b.edge_attrs[e], w[e])])

\* an aggregation indexed by the sender of each edge
Aggregate_BySender(mji, b) ==
    ScatterSum(mji, Sender(b), b.num_nodes, FeatureDim)

\* an aggregation that takes the rows of mji as the rows of the nodes
Aggregate_ByPosition(mji, b) ==
    Strict([i \in 1..b.num_nodes |->
        IF i <= Len(mji) THEN mji[i] ELSE VZero(FeatureDim)])

\* message = scatter_sum(src=mji, index=receiver, dim=0, dim_size=num_nodes)
Aggregate(mji, b) ==
    ScatterSum(mji, Receiver(b), b.num_nodes, FeatureDim)

\* message = self.linear(message) / self.avg_num_neighbors
Normalise(l, message) ==
    Strict([i \in 1..Len(message) |->
        VDiv(Linear(l, message[i]), l.avg_num_neighbors)])

NoSkip == [none |-> TRUE, val |-> NoTensor]

Skip(rows) == [none |-> FALSE, val |-> Flat(rows)]

\* what forward returns: the node features, whether they come in a tuple
\* and the skip term of the tuple; mji and the two stages of the message
\* are kept beside them
Result(node_feats, tuple, sc, mji, aggregated, message) ==
    [node_feats |-> node_feats, tuple |-> tuple, sc |-> sc,
     mji |-> mji, aggregated |-> aggregated, message |-> message]

SkipOfFeatures(b) ==
    Strict([i \in 1..b.num_nodes |-> SkipTP(b.node_feats[i], b.node_attrs[i])])

SkipOfMessage(message, b) ==
    Strict([i \in 1..b.num_nodes |-> SkipTP(message[i], b.node_attrs[i])])

RowsAdd(A, B) == Strict([i \in 1..Len(A) |-> VAdd(A[i], B[i])])

ResidualElementDependentForward(l, b) ==
    LET sc == SkipOfFeatures(b)
        mji == EdgeMessages(l, b)
        aggregated == Aggregate(mji, b)
        message == Normalise(l, aggregated)
    IN  Result(Flat(RowsAdd(message, sc)), FALSE, NoSkip,
               mji, aggregated, message)

AgnosticNonlinearForward(l, b) ==
    LET mji == EdgeMessages(l, b)
        aggregated == Aggregate(mji, b)
        message == Normalise(l, aggregated)
    IN  Result(Flat(SkipOfMessage(message, b)), FALSE, NoSkip,
               mji, aggregated, message)

AgnosticResidualNonlinearForward(l, b) ==
    LET sc == SkipOfFeatures(b)
        mji == EdgeMessages(l, b)
        aggregated == Aggregate(mji, b)
        message == Normalise(l, aggregated)
    IN  Result(Flat(RowsAdd(message, sc)), FALSE, NoSkip,
               mji, aggregated, message)

\* a RealAgnosticInteractionBlock that returns the flat message
RealAgnosticForward_Flat(l, b) ==
    LET mji == EdgeMessages(l, b)
        aggregated == Aggregate(mji, b)
        message == Normalise(l, aggregated)
    IN  Result(Flat(SkipOfMessage(message, b)), TRUE, NoSkip,
               mji, aggregated, message)

RealAgnosticForward(l, b) ==
    LET mji == EdgeMessages(l, b)
        aggregated == Aggregate(mji, b)
        message == Normalise(l, aggregated)
    IN  Result(ReshapeIrreps(SkipOfMessage(message, b)), TRUE, NoSkip,
               mji, aggregated, message)

RealAgnosticResidualForward(l, b) ==
    LET sc == SkipOfFeatures(b)
        mji == EdgeMessages(l, b)
        aggregated == Aggregate(mji, b)
        message == Normalise(l, aggregated)
    IN  Result(ReshapeIrreps(message), TRUE, Skip(sc),
               mji, aggregated, message)

InteractionForward(l, b) ==
    CASE l.variant = "ResidualElementDependentInteractionBlock" ->
            ResidualElementDependentForward(l, b)
      [] l.variant = "AgnosticNonlinearInteractionBlock" ->
            AgnosticNonlinearForward(l, b)
      [] l.variant = "AgnosticResidualNonlinearInteractionBlock" ->
            AgnosticResidualNonlinearForward(l, b)
      [] l.variant = "RealAgnosticInteractionBlock" ->
            RealAgnosticForward(l, b)
      [] l.variant = "RealAgnosticResidualInteractionBlock" ->
            RealAgnosticResidualForward(l, b)

\* the five inputs of forward for a graph with the given edges
GraphBatch(n, senders, receivers) ==
    [ num_nodes  |-> n,
      node_attrs |-> Strict([i \in 1..n |-> OneHot(((i - 1) % NumElements) + 1,
                                                  NumElements)]),
      node_feats |-> Strict([i \in 1..n |->
                        Strict([c \in 1..FeatureDim |-> Num(i + c - 1)])]),
      edge_attrs |-> Strict([e \in 1..Len(senders) |-> <<Num(e)>>]),
      edge_feats |-> Strict([e \in 1..Len(senders) |->
                        Strict([k \in 1..NumBasis |-> Num(IF k = 1 THEN 1 ELSE e)])]),
      edge_index |-> <<senders, receivers>> ]

GraphBatches ==
    { GraphBatch(n, s, r) :
        n \in 1..MaxNodes,
        <<s, r>> \in UNION { [1..k -> 1..MaxNodes] \X [1..k -> 1..MaxNodes] :
                               k \in 0..MaxEdges } }

AverageNeighbors == {Num(1), Num(2)}

IBForward ==
    /\ focus \in {"InteractionBlock", "Pipeline"}
    /\ LET r == InteractionForward(ib, batch)
       IN  last' = BlockCall("ib_forward", Returned(r.node_feats), r)
    /\ UNCHANGED <<focus, pb, sn, en, nTrain, ae, ib, mf, batch>>

InitInteraction ==
    /\ focus = "InteractionBlock"
    /\ \E v \in Variants, a \in AverageNeighbors : ib = InteractionBlockInit(v, a)
    /\ batch \in { b \in GraphBatches :
                     \A e \in 1..NumEdges(b) :
                        Sender(b)[e] <= b.num_nodes /\ Receiver(b)[e] <= b.num_nodes }
    /\ sn = NoBlock
    /\ en = NoBlock
    /\ ae = NoBlock
    /\ mf = NoBlock
    /\ nTrain = 0
    /\ pb = NoBlock
    /\ last = NoCall

NextInteraction == IBForward

SpecInteraction == InitInteraction /\ [][NextInteraction]_vars

(***************************************************************************)
(* EquivariantProductBasisBlock, after an interaction block that returns   *)
(* the tuple (node_feats, sc).  The symmetric contraction is the external  *)
(* element-conditioned polynomial of the features, here of correlation     *)
(* order two on scalar channels.                                           *)
(***************************************************************************)
EquivariantProductBasisInit(use_sc) == [use_sc |-> use_sc, linear |-> Num(5)]

\* SymmetricContraction(node_feats, node_attrs): [n_nodes, channels]
SymmetricContraction(node_feats, node_attrs) ==
    Strict([i \in 1..node_feats.shape[1] |->
        Strict([c \in 1..node_feats.shape[2] |->
            QMul(ElementOf(node_attrs[i]),
                 QAdd(node_feats.v[i][c][1],
                      QMul(node_feats.v[i][c][1], node_feats.v[i][c][1])))])])

\* self.linear of the product block, row by row
ProductLinear(l, rows) == Strict([i \in 1..Len(rows) |-> VScale(l.linear, rows[i])])

\* a product block that adds whatever skip term it is given
ProductForward_Always(l, node_feats, sc, node_attrs) ==
    LET linear == ProductLinear(l, SymmetricContraction(node_feats, node_attrs))
    IN  Flat(IF ~sc.none THEN RowsAdd(linear, sc.val.v) ELSE linear)

ProductForward(l, node_feats, sc, node_attrs) ==
    LET linear == ProductLinear(l, SymmetricContraction(node_feats, node_attrs))
    IN  Flat(IF l.use_sc /\ ~sc.none THEN RowsAdd(linear, sc.val.v) ELSE linear)

\* the product block applied to what the interaction block just returned
PBForward ==
    /\ focus = "Pipeline"
    /\ last.op = "ib_forward"
    /\ last' = BlockCall("pb_forward",
                         Returned(ProductForward(pb, last.aux.node_feats,
                                                 last.aux.sc, batch.node_attrs)),
                         last.aux)
    /\ UNCHANGED <<focus, pb, sn, en, nTrain, ae, ib, mf, batch>>

\* the two variants that return (node_feats, sc), each before a product
\* block with and without use_sc
InitPipeline ==
    /\ focus = "Pipeline"
    /\ \E v \in { "RealAgnosticInteractionBlock",
                   "RealAgnosticResidualInteractionBlock" },
          a \in AverageNeighbors : ib = InteractionBlockInit(v, a)
    /\ \E use_sc \in BOOLEAN : pb = EquivariantProductBasisInit(use_sc)
    /\ batch \in { b \in GraphBatches :
                     \A e \in 1..NumEdges(b) :
                        Sender(b)[e] <= b.num_nodes /\ Receiver(b)[e] <= b.num_nodes }
    /\ sn = NoBlock
    /\ en = NoBlock
    /\ ae = NoBlock
    /\ mf = NoBlock
    /\ nTrain = 0
    /\ last = NoCall

NextPipeline == IBForward \/ PBForward

SpecPipeline == InitPipeline /\ [][NextPipeline]_vars

(***************************************************************************)
(* MatrixFunctionBlock.  The multilayer perceptrons and the linear maps    *)
(* are fixed stand-ins of the external tensor engine on one scalar         *)
(* channel; the inverse computed by the LU solve is kept as an expression  *)
(* over the blocks of the matrix it inverts.                               *)
(***************************************************************************)
\* the 1e-9 added to every diagonal entry, an indeterminate
Epsilon == [n |-> << <<0, 1>> >>, d |-> 1]

QAbs(a) ==
    IF IsTerm(a) THEN Term("abs", a, a)
    ELSE IF IsNaN(a) \/ IsZero(a) THEN a
    ELSE IF IsPlain(a) THEN Rat(Abs(a.n[1][1]), a.d)
    ELSE Term("abs", a, a)

Param(name, c) == [param |-> name, c |-> c]

\* args: diagonal, num_features, num_poles, avg_num_neighbors,
\* learnable_resolvent, skip_connection, g_scaling
MatrixFunctionBlockInit(args) ==
    [ diagonal            |-> args[1],
      num_features        |-> args[2],
      num_poles           |-> args[3],
      avg_num_neighbors   |-> args[4],
      learnable_resolvent |-> args[5],
      skip_connection     |-> args[6],
      g_scaling           |-> args[7],
      matrix_norm       |-> EigenvalueNormInit(args[2] * args[3], TRUE),
      normalize_real    |-> SwitchNorm1dInit(args[2] * args[3], TRUE),
      normalize_complex |-> SwitchNorm1dInit(args[2] * args[3], TRUE),
      normalize_out     |-> 0,
      identity          |-> NoTensor,
      training          |-> TRUE ]

Channels(l) == l.num_features * l.num_poles

\* torch.nn.Module.train(mode): the flag of the block and of its layers
MatrixFunctionSetTraining(l, mode) ==
    [l EXCEPT !.training = mode,
              !.matrix_norm.training = mode,
              !.normalize_real.training = mode,
              !.normalize_complex.training = mode]

(***************************************************************************)
(* Graph batches: sizes[g] nodes in graph g, nodes numbered graph after    *)
(* graph, edges between nodes of one graph.                                *)
(***************************************************************************)
NumGraphs(b) == Len(b.sizes)

RECURSIVE MaxOf(_)
MaxOf(s) == IF Len(s) = 1 THEN s[1] ELSE Max(Head(s), MaxOf(Tail(s)))

PaddedSize(b) == MaxOf(b.sizes)

\* ptr[g]: the number of nodes before graph g
Ptr(b, g) == IntSum(SubSeq(b.sizes, 1, g - 1))

TotalNodes(b) == IntSum(b.sizes)

\* batch[i]: the graph of node i
GraphOf(b, i) ==
    CHOOSE g \in 1..NumGraphs(b) : Ptr(b, g) < i /\ i <= Ptr(b, g) + b.sizes[g]

LocalIndex(b, i) == i - Ptr(b, GraphOf(b, i))

\* get_mask(ptr[1:] - ptr[:-1]) reshaped to [n_graphs, max_nodes]
GetMask(b) ==
    Strict([g \in 1..NumGraphs(b) |-> Strict([i \in 1..PaddedSize(b) |->
        IF i <= b.sizes[g] THEN 1 ELSE 0])])

\* self.linear_scalar: one scalar per node
LinearScalar(row) == QMul(Num(2), row[1])

\* self.edge_feats_mlp
EdgeFeatsMLP(row) == QSum(row)

\* self.matrix_mlp and self.diag_matrix_mlp: num_features values
MatrixMLP(l, s) == Strict([f \in 1..l.num_features |-> QMul(Num(f), s)])

DiagMatrixMLP(l, s) == Strict([f \in 1..l.num_features |-> QMul(Num(3 * f), s)])

NodeScalars(b) ==
    Strict([i \in 1..TotalNodes(b) |-> LinearScalar(b.node_feats[i])])

\* H = matrix_mlp(node_feats[sender] * node_feats[receiver] * weights)
EdgeValues(l, b) ==
    LET ns == NodeScalars(b)
    IN  Strict([e \in 1..Len(b.edges) |->
            MatrixMLP(l, QMul(QMul(ns[b.edges[e][1]], ns[b.edges[e][2]]),
                              EdgeFeatsMLP(b.edge_feats[e])))])

RECURSIVE SumEdges(_, _, _)
SumEdges(S, H, f) ==
    IF S = {} THEN Num(0)
    ELSE LET e == CHOOSE e \in S : TRUE
         IN  QAdd(H[e][f], SumEdges(S \ {e}, H, f))

\* to_dense_adj(edge_index, batch, edge_attr).permute(0, 3, 1, 2):
\* [n_graphs, n_features, max_nodes, max_nodes], zero where there is no edge
ToDenseAdj(b, H, F) ==
    LET N == PaddedSize(b)
        at(g, i, j) == {e \in 1..Len(b.edges) :
                          /\ GraphOf(b, b.edges[e][1]) = g
                          /\ LocalIndex(b, b.edges[e][1]) = i
                          /\ LocalIndex(b, b.edges[e][2]) = j}
    IN  Tensor(<<NumGraphs(b), F, N, N>>,
          Strict([g \in 1..NumGraphs(b) |-> Strict([f \in 1..F |->
            Strict([i \in 1..N |-> Strict([j \in 1..N |->
              SumEdges(at(g, i, j), H, f)])])])]))

\* H_dense.repeat(1, num_poles, 1, 1)
Repeat(T, num_poles) ==
    LET F == T.shape[2]
    IN  Tensor(<<T.shape[1], F * num_poles, T.shape[3], T.shape[4]>>,
          Strict([g \in 1..T.shape[1] |-> Strict([c \in 1..(F * num_poles) |->
            T.v[g][((c - 1) % F) + 1]])]))

\* to_dense_batch(diag_H, batch)[0].permute(0, 2, 1).repeat(1, num_poles, 1)
ToDenseBatch(l, b, rows) ==
    Strict([g \in 1..NumGraphs(b) |-> Strict([c \in 1..Channels(l) |->
        Strict([i \in 1..PaddedSize(b) |->
            IF i <= b.sizes[g]
            THEN rows[Ptr(b, g) + i][((c - 1) % l.num_features) + 1]
            ELSE Num(0)])])])

Index4(shape) == (1..shape[1]) \X (1..shape[2]) \X (1..shape[3]) \X (1..shape[4])

\* the [G, C, N, N] tensor whose entry at <<g, c, i, j>> is rule[<<g, c, i, j>>]
Entries(shape, rule) ==
    Tensor(shape,
      Strict([g \in 1..shape[1] |-> Strict([c \in 1..shape[2] |->
        Strict([i \in 1..shape[3] |-> Strict([j \in 1..shape[4] |->
          rule[<<g, c, i, j>>]])])])]))

\* H_dense + torch.diag_embed(diag_H)
Learnable(l, b, W) ==
    LET ns == NodeScalars(b)
        diag_H == ToDenseBatch(l, b,
                     Strict([i \in 1..TotalNodes(b) |-> DiagMatrixMLP(l, ns[i])]))
    IN  Entries(W.shape, [x \in Index4(W.shape) |->
            IF x[3] = x[4]
            THEN QAdd(W.v[x[1]][x[2]][x[3]][x[4]], diag_H[x[1]][x[2]][x[3]])
            ELSE W.v[x[1]][x[2]][x[3]][x[4]]])

\* a Laplacian whose degree forgets the absolute value
Laplacian_Signed(W) ==
    LET degree(g, c, i) == QSum(W.v[g][c][i])
    IN  Entries(W.shape, [x \in Index4(W.shape) |->
            IF x[3] = x[4]
            THEN QSub(degree(x[1], x[2], x[3]), W.v[x[1]][x[2]][x[3]][x[4]])
            ELSE QNeg(W.v[x[1]][x[2]][x[3]][x[4]])])

\* degree = torch.sum(torch.abs(H_dense), axis=-1);
\* H_dense = torch.diag_embed(degree) - H_dense
Laplacian(W) ==
    LET degree(g, c, i) ==
            QSum(Strict([j \in 1..W.shape[4] |-> QAbs(W.v[g][c][i][j])]))
    IN  Entries(W.shape, [x \in Index4(W.shape) |->
            IF x[3] = x[4]
            THEN QSub(degree(x[1], x[2], x[3]), W.v[x[1]][x[2]][x[3]][x[4]])
            ELSE QNeg(W.v[x[1]][x[2]][x[3]][x[4]])])

\* a policy step in which the unimplemented policy falls back to the
\* Laplacian
DiagonalPolicy_Fallback(l, b, W) ==
    IF l.diagonal = "learnable" THEN Returned(Learnable(l, b, W))
    ELSE IF l.diagonal \in {"laplacian", "normalised_laplacian"}
    THEN Returned(Laplacian(W))
    ELSE Returned(W)

\* a policy step that rejects a diagonal value it does not know
DiagonalPolicy_Strict(l, b, W) ==
    IF l.diagonal = "learnable" THEN Returned(Learnable(l, b, W))
    ELSE IF l.diagonal = "laplacian" THEN Returned(Laplacian(W))
    ELSE Raised("NotImplementedError")

\* the if / elif chain over self.diagonal
DiagonalPolicy(l, b, W) ==
    IF l.diagonal = "learnable" THEN Returned(Learnable(l, b, W))
    ELSE IF l.diagonal = "laplacian" THEN Returned(Laplacian(W))
    ELSE IF l.diagonal = "normalised_laplacian" THEN Raised("NotImplementedError")
    ELSE Returned(W)

\* an epsilon added to every entry of the matrix
AddEpsilon_Everywhere(H) ==
    Entries(H.shape, [x \in Index4(H.shape) |->
        QAdd(H.v[x[1]][x[2]][x[3]][x[4]], Epsilon)])

\* H_dense + diag_embed(ones) * 1e-9
AddEpsilon(H) ==
    Entries(H.shape, [x \in Index4(H.shape) |->
        IF x[3] = x[4] THEN QAdd(H.v[x[1]][x[2]][x[3]][x[4]], Epsilon)
        ELSE H.v[x[1]][x[2]][x[3]][x[4]]])

(***************************************************************************)
(* matrix_feats: None or a tensor, added with the broadcasting of torch.   *)
(***************************************************************************)
NoFeats == [none |-> TRUE, val |-> NoTensor]

Feats(t) == [none |-> FALSE, val |-> t]

\* the shape with leading ones, four dimensions long
Padded4(shape) == Strict([d \in 1..4 |->
    IF d <= 4 - Len(shape) THEN 1 ELSE shape[d - (4 - Len(shape))]])

Broadcastable(sa, sb) ==
    /\ Len(sb) <= 4
    /\ \A d \in 1..4 : sa[d] = Padded4(sb)[d] \/ sa[d] = 1 \/ Padded4(sb)[d] = 1

BroadcastShape(sa, sb) == Strict([d \in 1..4 |-> Max(sa[d], Padded4(sb)[d])])

\* the entry of a tensor of three or four dimensions at a broadcast index
EntryAt(t, g, c, i, j) ==
    LET p == Padded4(t.shape)
        ix(d, k) == IF p[d] = 1 THEN 1 ELSE k
    IN  IF Len(t.shape) = 4
        THEN t.v[ix(1, g)][ix(2, c)][ix(3, i)][ix(4, j)]
        ELSE t.v[ix(2, c)][ix(3, i)][ix(4, j)]

\* H_dense + matrix_feats
BroadcastAdd(H, t) ==
    IF ~(Len(t.shape) \in {3, 4}) \/ ~Broadcastable(H.shape, t.shape)
    THEN Raised("RuntimeError")
    ELSE LET shape == BroadcastShape(H.shape, t.shape)
         IN  Returned(Entries(shape, [x \in Index4(shape) |->
                 QAdd(EntryAt(H, x[1], x[2], x[3], x[4]),
                      EntryAt(t, x[1], x[2], x[3], x[4]))]))

ZeroFeats(shape) == Feats(Entries(shape, [x \in Index4(shape) |-> Num(0)]))

(***************************************************************************)
(* The resolvent.  R = D_z - H is block diagonal over the components of    *)
(* its nonzero pattern, and so is its inverse; entry (i, j) of the inverse *)
(* is entry (i, j) of the inverse of the block of i.                       *)
(***************************************************************************)
CZero == [re |-> Num(0), im |-> Num(0)]

\* z_k: 0 + 1i, or the learned z_k_real + exp(z_k_complex) i
ZPole(l, c) ==
    IF l.learnable_resolvent
    THEN [re |-> Param("z_k_real", c),
          im |-> Term("exp", Param("z_k_complex", c), Param("z_k_complex", c))]
    ELSE [re |-> Num(0), im |-> Num(1)]

\* R_dense = D_z - H_dense, one matrix of the batch
ResolventMatrix(l, Hn, g, c) ==
    LET N == Hn.shape[3]
    IN  Strict([i \in 1..N |-> Strict([j \in 1..N |->
            [z |-> IF i = j THEN ZPole(l, c) ELSE CZero, h |-> Hn.v[g][c][i][j]]])])

\* an entry that is zero whatever the running variance: no pole, a zero
\* numerator and a zero shift
StructZero(e) ==
    /\ e.z = CZero
    /\ ~IsTerm(e.h.c) /\ IsZero(e.h.c)
    /\ ~IsTerm(e.h.b) /\ IsZero(e.h.b)

RECURSIVE Component(_, _)
Component(R, S) ==
    LET T == S \cup {j \in 1..Len(R) :
                 \E k \in S : ~StructZero(R[k][j]) \/ ~StructZero(R[j][k])}
    IN  IF T = S THEN S ELSE Component(R, T)

RECURSIVE SortedSeq(_)
SortedSeq(S) ==
    IF S = {} THEN <<>>
    ELSE LET m == CHOOSE m \in S : \A k \in S : m <= k
         IN  <<m>> \o SortedSeq(S \ {m})

RankIn(s, i) == CHOOSE k \in 1..Len(s) : s[k] = i

\* torch.linalg.lu_solve(LU, P, identity)[i][j]
InverseEntry(R, i, j) ==
    LET comp == Component(R, {i})
        idx == SortedSeq(comp)
    IN  IF j \notin comp THEN CZero
        ELSE [inv |-> Strict([a \in 1..Len(idx) |-> Strict([k \in 1..Len(idx) |->
                          R[idx[a]][idx[k]]])]),
              i |-> RankIn(idx, i), j |-> RankIn(idx, j)]

\* self.g_scaling(z_k), for the expressions "1" and "x"
GScaling(l, z) == IF l.g_scaling = "1" THEN [re |-> Num(1), im |-> Num(0)] ELSE z

\* features.diagonal(dim1=-2, dim2=-1) * self.g_scaling(z_k): [G, C, N]
SpectralDiagonal(l, Hn) ==
    Tensor(<<Hn.shape[1], Hn.shape[2], Hn.shape[3]>>,
      Strict([g \in 1..Hn.shape[1] |-> Strict([c \in 1..Hn.shape[2] |->
        LET R == ResolventMatrix(l, Hn, g, c)
        IN  Strict([i \in 1..Hn.shape[3] |->
                Term("mul", InverseEntry(R, i, i), GScaling(l, ZPole(l, c)))])])]))

RealPart(t) == [real |-> t]

ImagPart(t) == [imag |-> t]

\* features.real, entry by entry
RealTensor(t) ==
    Tensor(t.shape,
      Strict([g \in 1..t.shape[1] |-> Strict([c \in 1..t.shape[2] |->
        Strict([i \in 1..t.shape[3] |-> RealPart(t.v[g][c][i])])])]))

\* permute(0, 2, 1), reshape and [mask, :]: one row per valid node
MaskedRows(b, t, part) ==
    Tensor(<<TotalNodes(b), t.shape[2]>>,
      Strict([n \in 1..TotalNodes(b) |-> Strict([c \in 1..t.shape[2] |->
        IF part = "real" THEN RealPart(t.v[GraphOf(b, n)][c][LocalIndex(b, n)])
        ELSE ImagPart(t.v[GraphOf(b, n)][c][LocalIndex(b, n)])])]))

\* self.linear_out over torch.cat([real, imag], dim=1)
LinearOut(row) == QSum(Strict([k \in 1..Len(row) |-> QMul(Num(k), row[k])]))

\* what forward computed on the way, NoTensor for what it did not reach
Trace(steps, W, policy, H_eps, H_pre, H_norm, features) ==
    [steps |-> steps, W |-> W, policy |-> policy, H_eps |-> H_eps,
     H_pre |-> H_pre, H_norm |-> H_norm, features |-> features]

Outcome(l, out, carry, trace) ==
    [block |-> l, out |-> out, carry |-> carry, trace |-> trace]

StepsToDense ==
    <<"linear_scalar", "edge_feats_mlp", "matrix_mlp", "to_dense_adj", "repeat">>

\* a block that hands its state on whether or not it was given one
CarriedState_Always(matrix_feats, features) == Feats(RealTensor(features))

\* lines 805-811: None when matrix_feats is None, features.real otherwise
CarriedState(matrix_feats, features) ==
    IF matrix_feats.none THEN NoFeats ELSE Feats(RealTensor(features))

\* lines 772-811: the diagonal of the resolvent is normalised, mixed by
\* linear_out and returned with the real part of that diagonal
ForwardOut(l, b, matrix_feats, t, matrix_norm, x_imag, x_real, y_imag, y_real) ==
    LET node_features(n) ==
            Strict([k \in 1..(2 * t.features.shape[2]) |->
                IF k <= t.features.shape[2]
                THEN QDiv(y_real.v[n][k], l.avg_num_neighbors)
                ELSE QDiv(y_imag.v[n][k - t.features.shape[2]],
                          l.avg_num_neighbors)])
        out(n) == Term("batchnorm",
                       QAdd(LinearOut(node_features(n)), b.node_feats[n][1]),
                       Num(l.normalize_out))
    IN  Outcome([l EXCEPT
                    !.matrix_norm = matrix_norm,
                    !.identity = Entries(t.H_norm.shape,
                                    [x \in Index4(t.H_norm.shape) |->
                                        Num(IF x[3] = x[4] THEN 1 ELSE 0)]),
                    !.normalize_complex = SwitchNorm1dUpdate(@, x_imag),
                    !.normalize_real = SwitchNorm1dUpdate(@, x_real),
                    !.normalize_out = IF l.skip_connection /\ l.training
                                      THEN @ + 1 ELSE @],
                Returned(Tensor(<<TotalNodes(b), 1>>,
                    Strict([n \in 1..TotalNodes(b) |->
                        <<IF l.skip_connection THEN out(n)
                          ELSE LinearOut(node_features(n))>>]))),
                CarriedState(matrix_feats, t.features),
                [t EXCEPT !.steps = @ \o <<"normalize_complex", "normalize_real",
                                           "linear_out">>
                            \o (IF l.skip_connection THEN <<"normalize_out">>
                                ELSE <<>>)])

\* lines 774-797: the imaginary and the real rows of the valid nodes
ForwardNormalize(l, b, matrix_feats, t, matrix_norm, x_imag, x_real) ==
    ForwardOut(l, b, matrix_feats, t, matrix_norm, x_imag, x_real,
               SwitchNorm1dOutput(l.normalize_complex, x_imag),
               SwitchNorm1dOutput(l.normalize_real, x_real))

\* lines 774-789: permute, reshape and mask the imaginary and the real part
ForwardRows(l, b, matrix_feats, t, matrix_norm) ==
    ForwardNormalize(l, b, matrix_feats, t, matrix_norm,
                     MaskedRows(b, t.features, "imag"),
                     MaskedRows(b, t.features, "real"))

\* lines 760-772: the resolvent is inverted and its diagonal taken
ForwardResolvent(l, b, matrix_feats, t, matrix_norm, H_norm) ==
    ForwardRows(l, b, matrix_feats,
                [t EXCEPT !.H_norm = H_norm,
                          !.features = SpectralDiagonal(l, H_norm),
                          !.steps = @ \o <<"lu_solve", "diagonal_of_inverse">>],
                matrix_norm)

\* line 759, the value: the matrix under the updated statistics
ForwardNormalized(l, b, matrix_feats, t, mask, matrix_norm) ==
    ForwardResolvent(l, b, matrix_feats, t, matrix_norm,
                     EigenvalueNormOutput(matrix_norm, t.H_pre, mask))

\* line 759: self.matrix_norm(H, mask)
ForwardMatrixNorm(l, b, matrix_feats, t, mask) ==
    IF ~EigenvalueNormCheckInputDim(l.matrix_norm, t.H_pre)
    THEN Outcome(l, Raised("ValueError"), NoFeats, t)
    ELSE ForwardNormalized(l, b, matrix_feats, t, mask,
                           EigenvalueNormUpdate(l.matrix_norm, t.H_pre, mask))

\* lines 747-748: H + matrix_feats, when matrix_feats is given
ForwardMatrixFeats(l, b, matrix_feats, t, added) ==
    IF added.err # "none"
    THEN Outcome(l, Raised(added.err), NoFeats, t)
    ELSE ForwardMatrixNorm(l, b, matrix_feats,
                           [t EXCEPT !.H_pre = added.val,
                                     !.steps = @ \o <<"matrix_norm">>],
                           Mask(GetMask(b)))

\* lines 737-743: epsilon on the diagonal
ForwardEpsilon(l, b, matrix_feats, t, H_eps) ==
    ForwardMatrixFeats(l, b, matrix_feats,
        [t EXCEPT !.H_eps = H_eps,
                  !.steps = @ \o <<"diagonal", "epsilon">>
                      \o (IF matrix_feats.none THEN <<>> ELSE <<"matrix_feats">>)],
        IF matrix_feats.none THEN Returned(H_eps)
        ELSE BroadcastAdd(H_eps, matrix_feats.val))

\* lines 719-735: the diagonal policy, or NotImplementedError
ForwardDiagonal(l, b, matrix_feats, t, policy) ==
    IF policy.err # "none"
    THEN Outcome(l, Raised(policy.err), NoFeats, t)
    ELSE ForwardEpsilon(l, b, matrix_feats, [t EXCEPT !.policy = policy.val],
                        AddEpsilon(policy.val))

\* lines 716-717: the dense matrix of the edge values
ForwardDense(l, b, matrix_feats, W) ==
    ForwardDiagonal(l, b, matrix_feats,
                    Trace(StepsToDense, W, NoTensor, NoTensor, NoTensor,
                          NoTensor, NoTensor),
                    DiagonalPolicy(l, b, W))

MatrixFunctionForward(l, b, matrix_feats) ==
    ForwardDense(l, b, matrix_feats,
        Repeat(ToDenseAdj(b, EdgeValues(l, b), l.num_features), l.num_poles))

(***************************************************************************)
(* The batches and the configurations the block is exercised on.           *)
(***************************************************************************)
GraphKinds == {"complete", "weighted", "loop"}

EdgeIn(kind, i, j) == i # j \/ (kind = "loop" /\ i = 1)

EdgeFeat(kind, i, j) == IF kind = "weighted" THEN i - j ELSE 1

NodeFeat(kind, i) == IF kind = "weighted" THEN Rat(i, 2) ELSE Rat(1, 2)

\* the edges (i, j) of a graph of n nodes, from pair number k on
RECURSIVE GraphEdges(_, _, _)
GraphEdges(kind, n, k) ==
    IF k > n * n THEN <<>>
    ELSE LET i == ((k - 1) \div n) + 1
             j == ((k - 1) % n) + 1
         IN  (IF EdgeIn(kind, i, j) THEN <<<<i, j>>>> ELSE <<>>)
             \o GraphEdges(kind, n, k + 1)

\* the batch of the graphs gs[1], gs[2], ... of one kind, gs[g] nodes each
RECURSIVE BatchEdges(_, _, _)
BatchEdges(kind, gs, g) ==
    IF g > Len(gs) THEN <<>>
    ELSE LET off == IntSum(SubSeq(gs, 1, g - 1))
             es == GraphEdges(kind, gs[g], 1)
         IN  Strict([e \in 1..Len(es) |->
                 [s |-> es[e][1] + off, r |-> es[e][2] + off,
                  feat |-> EdgeFeat(kind, es[e][1], es[e][2])]])
             \o BatchEdges(kind, gs, g + 1)

MFBatch(kind, gs) ==
    LET es == BatchEdges(kind, gs, 1)
        b0 == [sizes |-> gs]
    IN  [ sizes |-> gs,
          node_feats |-> Strict([n \in 1..IntSum(gs) |->
                            <<NodeFeat(kind, LocalIndex(b0, n))>>]),
          edges |-> Strict([e \in 1..Len(es) |-> <<es[e].s, es[e].r>>]),
          edge_feats |-> Strict([e \in 1..Len(es) |-> <<Num(es[e].feat)>>]) ]

\* batches of graphs of one kind and of pairwise different sizes
MFBatchesOf(kinds) ==
    { MFBatch(kind, gs) :
        kind \in kinds,
        gs \in { s \in UNION { [1..k -> 1..MaxAtoms] : k \in 1..MaxBatch } :
                   \A a, c \in 1..Len(s) : a # c => s[a] # s[c] } }

MFConfigurations ==
    { <<"laplacian", 1, 1, Num(1), FALSE, FALSE, "1">>,
      <<"laplacian", 2, 1, Num(2), FALSE, FALSE, "1">>,
      <<"laplacian", 1, 2, Num(1), TRUE, TRUE, "x">>,
      <<"learnable", 1, 1, Num(1), FALSE, FALSE, "1">>,
      <<"normalised_laplacian", 1, 1, Num(1), FALSE, FALSE, "1">>,
      <<"diagonal", 1, 1, Num(1), FALSE, FALSE, "1">> }

DenseShape(l, b) == <<NumGraphs(b), Channels(l), PaddedSize(b), PaddedSize(b)>>

\* the state a stacked block before this one handed over, if any
Carried ==
    IF last.op = "mf_forward" /\ last.out.err = "none" /\ ~last.aux.carry.none
    THEN {last.aux.carry}
    ELSE {}

\* None, zeros of the shape of the dense matrix, or the carried state of
\* the call before, where adding it fails or keeps the shape
MatrixFeats ==
    {NoFeats, ZeroFeats(DenseShape(mf, batch))}
    \cup { m \in Carried :
             Broadcastable(DenseShape(mf, batch), m.val.shape) =>
                BroadcastShape(DenseShape(mf, batch), m.val.shape)
                    = DenseShape(mf, batch) }

\* the call as the block and the caller see it afterwards
MFCall(matrix_feats, r) ==
    /\ mf' = r.block
    /\ last' = [op |-> "mf_forward", x |-> NoTensor, mask |-> NoMask,
                out |-> r.out, training |-> mf.training, pre |-> mf,
                aux |-> [matrix_feats |-> matrix_feats,
                         carry |-> r.carry, trace |-> r.trace]]

MFCounted(matrix_feats) == mf.training \/ matrix_feats \in Carried

MFForward(matrix_feats) ==
    /\ focus = "MatrixFunctionBlock"
    /\ MFCounted(matrix_feats) => nTrain < MaxTrain
    /\ MFCall(matrix_feats, MatrixFunctionForward(mf, batch, matrix_feats))
    /\ nTrain' = IF MFCounted(matrix_feats) THEN nTrain + 1 ELSE nTrain
    /\ UNCHANGED <<focus, pb, sn, en, ae, ib, batch>>

\* a block as constructed or put in evaluation mode; the default
\* configuration meets every batch, the others the weighted graphs
InitMatrix ==
    /\ focus = "MatrixFunctionBlock"
    /\ \E c \in MFConfigurations, mode \in BOOLEAN :
         /\ mf = MatrixFunctionSetTraining(
                    MatrixFunctionBlockInit(c),
                    mode)
         /\ batch \in MFBatchesOf(IF c[1] = "laplacian" /\ c[2] = 1 /\ c[3] = 1
                                  THEN GraphKinds ELSE {"weighted"})
    /\ sn = NoBlock
    /\ en = NoBlock
    /\ ae = NoBlock
    /\ ib = NoBlock
    /\ nTrain = 0
    /\ pb = NoBlock
    /\ last = NoCall

NextMatrix == \E m \in MatrixFeats : MFForward(m)

SpecMatrix == InitMatrix /\ [][NextMatrix]_vars

\* the calls that can raise a structural error: the two normalization
\* layers on any input, and the block built with the normalised Laplacian
InitStructural ==
    \/ InitNorm
    \/ InitMatrix /\ mf.diagonal = "normalised_laplacian"

NextStructural ==
    \/ NextNorm
    \/ focus = "MatrixFunctionBlock" /\ NextMatrix

SpecStructural == InitStructural /\ [][NextStructural]_vars

(***************************************************************************)
(* Properties of the interaction blocks.                                   *)
(***************************************************************************)
IBCalled == last.op = "ib_forward"

Perms(k) == {p \in [1..k -> 1..k] : \A i, j \in 1..k : i # j => p[i] # p[j]}

PermuteRows(rows, p) == Strict([e \in 1..Len(rows) |-> rows[p[e]]])

\* the same graph with its edges, and everything stored per edge, reordered
PermuteEdges(b, p) ==
    [b EXCEPT !.edge_attrs = PermuteRows(b.edge_attrs, p),
              !.edge_feats = PermuteRows(b.edge_feats, p),
              !.edge_index = <<PermuteRows(Sender(b), p),
                               PermuteRows(Receiver(b), p)>>]

RECURSIVE SumOver(_, _)
SumOver(S, mji) ==
    IF S = {} THEN VZero(FeatureDim)
    ELSE LET e == CHOOSE e \in S : TRUE
         IN  VAdd(mji[e], SumOver(S \ {e}, mji))

Incoming(b, i) == {e \in 1..NumEdges(b) : Receiver(b)[e] = i}

\* C5: reordering the edges, the rows of the per-edge messages following the
\* columns of edge_index, leaves the aggregated message of every node and
\* what forward returns unchanged, in every interaction block.
C5_EdgeOrderIrrelevant ==
    IBCalled =>
        \A p \in Perms(NumEdges(batch)) :
            LET r == InteractionForward(ib, PermuteEdges(batch, p))
            IN  /\ r.mji = PermuteRows(last.aux.mji, p)
                /\ r.aggregated = last.aux.aggregated
                /\ r.node_feats = last.aux.node_feats
                /\ r.sc = last.aux.sc

C5_Witness ==
    /\ IBCalled
    /\ NumEdges(batch) = 2
    /\ Receiver(batch)[1] = Receiver(batch)[2]
    /\ Sender(batch)[1] # Sender(batch)[2]
    /\ last.aux.mji[1] # last.aux.mji[2]
    /\ last.aux.aggregated[Receiver(batch)[1]] # VZero(FeatureDim)

\* C6: the aggregated message has one row per node; row i is the sum of the
\* tensor-product messages of exactly the edges whose receiver is i, each
\* built from the features of its sender, and is zero for a node without
\* incoming edge; with two nodes, one edge and avg_num_neighbors = 1 the
\* message of the receiver is the contribution of that edge, undivided.
C6_SumOverIncoming ==
    IBCalled =>
        LET r == last.aux
            w == TPWeights(ib, batch)
        IN  /\ Len(r.mji) = NumEdges(batch)
            /\ \A e \in 1..NumEdges(batch) :
                  r.mji[e] = ConvTP(LinearUp(ib, batch.node_feats[Sender(batch)[e]]),
                                    batch.edge_attrs[e], w[e])
            /\ Len(r.aggregated) = batch.num_nodes
            /\ Len(r.message) = batch.num_nodes
            /\ \A i \in 1..batch.num_nodes :
                  /\ r.aggregated[i] = SumOver(Incoming(batch, i), r.mji)
                  /\ Incoming(batch, i) = {} =>
                        /\ r.aggregated[i] = VZero(FeatureDim)
                        /\ r.message[i] = VZero(FeatureDim)
            /\ (batch.num_nodes = 2 /\ NumEdges(batch) = 1
                   /\ ib.avg_num_neighbors = Num(1)) =>
                  r.message[Receiver(batch)[1]] = Linear(ib, r.mji[1])

C6_Witness ==
    /\ IBCalled
    /\ batch.num_nodes = 2
    /\ NumEdges(batch) = 1
    /\ Sender(batch)[1] = 1
    /\ Receiver(batch)[1] = 2
    /\ ib.avg_num_neighbors = Num(1)
    /\ last.aux.message[2] # VZero(FeatureDim)
    /\ last.aux.message[1] = VZero(FeatureDim)

\* what the variant v, configured as the block at hand, returns for the
\* batch at hand
OutputOf(v) ==
    InteractionForward(InteractionBlockInit(v, ib.avg_num_neighbors), batch)

RealVariants ==
    {"RealAgnosticInteractionBlock", "RealAgnosticResidualInteractionBlock"}

\* C8 as stated: six variants, all returning node features of one shape
C8_Original ==
    IBCalled =>
        /\ Cardinality(Variants) = 6
        /\ \A v \in Variants :
              OutputOf(v).node_feats.shape = last.aux.node_feats.shape

\* C8: there are five variants, all taking the same five inputs.  The
\* three variants that are not Real return the node features alone, of
\* shape [n_nodes, features]; the two Real variants return a pair of node
\* features of shape [n_nodes, channels, components] and a skip term,
\* which is None for RealAgnosticInteractionBlock and has one row per node
\* for RealAgnosticResidualInteractionBlock.
C8_TwoFamilies ==
    IBCalled =>
        /\ Cardinality(Variants) = 5
        /\ \A v \in Variants :
              LET r == OutputOf(v)
              IN  IF v \in RealVariants
                  THEN /\ r.tuple
                       /\ r.node_feats.shape = <<batch.num_nodes, FeatureDim, 1>>
                       /\ r.sc.none <=> v = "RealAgnosticInteractionBlock"
                       /\ ~r.sc.none =>
                             r.sc.val.shape = <<batch.num_nodes, FeatureDim>>
                  ELSE /\ ~r.tuple
                       /\ r.sc.none
                       /\ r.node_feats.shape = <<batch.num_nodes, FeatureDim>>

C8_Witness ==
    /\ IBCalled
    /\ ib.variant = "RealAgnosticResidualInteractionBlock"
    /\ last.aux.tuple
    /\ Dim(last.aux.node_feats) = 3
    /\ Dim(OutputOf("AgnosticNonlinearInteractionBlock").node_feats) = 2

(***************************************************************************)
(* Properties of the matrix function block.                                *)
(***************************************************************************)
MFCalled == last.op = "mf_forward"

MFReturned == MFCalled /\ last.out.err = "none"

\* C2 as stated: the failure comes before any tensor computation
C2_Original ==
    (MFCalled /\ last.pre.diagonal = "normalised_laplacian") =>
        /\ last.out.err = "NotImplementedError"
        /\ last.aux.trace.steps = <<>>

\* C2: with diagonal = "normalised_laplacian" forward fails with
\* NotImplementedError at the diagonal-policy step: the scalar projection,
\* the edge MLP, the matrix MLP and the scatter to the dense matrix with
\* its repetition over the poles have run, and nothing after them has: no
\* epsilon, no carried state, no normalization, no solve; the block, the
\* buffers of its layers included, is as before the call.
C2_FailsAtPolicy ==
    (MFCalled /\ last.pre.diagonal = "normalised_laplacian") =>
        /\ last.out.err = "NotImplementedError"
        /\ last.aux.trace.steps = StepsToDense
        /\ last.aux.trace.W.shape = DenseShape(last.pre, batch)
        /\ last.aux.trace.policy = NoTensor
        /\ last.aux.trace.H_eps = NoTensor
        /\ last.aux.trace.H_norm = NoTensor
        /\ last.aux.carry = NoFeats
        /\ mf = last.pre

C2_Witness ==
    /\ MFCalled
    /\ last.pre.diagonal = "normalised_laplacian"
    /\ last.out.err = "NotImplementedError"
    /\ last.pre.training
    /\ ~last.aux.matrix_feats.none
    /\ Len(batch.edges) > 0
    /\ ~IsZero(last.aux.trace.W.v[1][1][1][2])

RowAbsSum(row) == QSum(Strict([j \in 1..Len(row) |-> QAbs(row[j])]))

ZeroDiagonal(M) == \A i \in 1..Len(M) : IsZero(M[i][i])

UnitComplete(M) ==
    \A i, j \in 1..Len(M) : M[i][j] = Num(IF i = j THEN 0 ELSE 1)

\* C3: with diagonal = "laplacian", for every dense matrix W with zero
\* diagonal the matrix after the diagonal policy, before epsilon, has
\* -W[i][j] off the diagonal and the sum of |W[i][j]| over row i at (i, i);
\* for the complete graph of n nodes with unit weights that is n - 1 on
\* the diagonal and -1 elsewhere.
C3_Laplacian ==
    (MFCalled /\ last.pre.diagonal = "laplacian") =>
        \A g \in 1..NumGraphs(batch), c \in 1..Channels(last.pre) :
            LET W == last.aux.trace.W.v[g][c]
                P == last.aux.trace.policy.v[g][c]
                N == Len(W)
            IN  /\ ZeroDiagonal(W) =>
                      \A i, j \in 1..N :
                          P[i][j] = IF i = j THEN RowAbsSum(W[i]) ELSE QNeg(W[i][j])
                /\ UnitComplete(W) =>
                      \A i, j \in 1..N :
                          P[i][j] = Num(IF i = j THEN N - 1 ELSE -1)

C3_Witness ==
    /\ MFCalled
    /\ last.pre.diagonal = "laplacian"
    /\ batch.sizes = <<3>>
    /\ UnitComplete(last.aux.trace.W.v[1][1])
    /\ last.aux.trace.policy.v[1][1][1][1] = Num(2)
    /\ last.aux.trace.policy.v[1][1][2][3] = Num(-1)

\* the edges of graph g, from edge e on, renumbered from node 1
RECURSIVE EdgesOf(_, _, _)
EdgesOf(b, g, e) ==
    IF e > Len(b.edges) THEN <<>>
    ELSE (IF GraphOf(b, b.edges[e][1]) = g THEN <<e>> ELSE <<>>)
         \o EdgesOf(b, g, e + 1)

\* graph g of the batch as a batch of its own, without padding
Single(b, g) ==
    LET es == EdgesOf(b, g, 1)
    IN  [ sizes |-> <<b.sizes[g]>>,
          node_feats |-> SubSeq(b.node_feats, Ptr(b, g) + 1, Ptr(b, g) + b.sizes[g]),
          edges |-> Strict([k \in 1..Len(es) |->
                       <<b.edges[es[k]][1] - Ptr(b, g), b.edges[es[k]][2] - Ptr(b, g)>>]),
          edge_feats |-> Strict([k \in 1..Len(es) |-> b.edge_feats[es[k]]]) ]

ZeroNormalized(h) ==
    ~IsTerm(h.c) /\ IsZero(h.c) /\ ~IsTerm(h.b) /\ IsZero(h.b)

PaddingFree ==
    last.aux.matrix_feats \in {NoFeats, ZeroFeats(DenseShape(last.pre, batch))}

\* C4: for every graph of the batch, with n real nodes among max_nodes
\* positions whose padded rows and columns are zero before epsilon, the
\* real nodes see what they see without padding: the matrix given to
\* EigenvalueNorm has the same real-node block, its masked trace mean and
\* variance and the buffers they update are the same, the normalized
\* matrix has the same real-node block and no entry coupling a real node
\* with a padded position, and the diagonal of the resolvent at the real
\* nodes is the same.
C4_PaddingInvariance ==
    (MFReturned /\ PaddingFree) =>
        \A g \in 1..NumGraphs(batch) :
            LET n == batch.sizes[g]
                N == PaddedSize(batch)
                C == Channels(last.pre)
                sb == Single(batch, g)
                alone == MatrixFunctionForward(last.pre, sb, NoFeats).trace
                aloneMask == Mask(GetMask(sb))
                H_pre == last.aux.trace.H_pre
                padded == Tensor(<<1, C, N, N>>, <<H_pre.v[g]>>)
                paddedMask == Mask(<<GetMask(batch)[g]>>)
                aloneNorm == EigenvalueNormOutput(mf.matrix_norm, alone.H_pre, aloneMask)
                aloneDiag == SpectralDiagonal(last.pre, aloneNorm)
            IN  /\ \A c \in 1..C, i, j \in 1..N :
                      H_pre.v[g][c][i][j] =
                          IF i <= n /\ j <= n THEN alone.H_pre.v[1][c][i][j]
                          ELSE IF i = j THEN Epsilon ELSE Num(0)
                /\ MeanAndVarianceTrace(padded, ReformatMask(padded, paddedMask))
                     = MeanAndVarianceTrace(alone.H_pre,
                                            ReformatMask(alone.H_pre, aloneMask))
                /\ EigenvalueNormUpdate(last.pre.matrix_norm, padded, paddedMask)
                     = EigenvalueNormUpdate(last.pre.matrix_norm, alone.H_pre, aloneMask)
                /\ \A c \in 1..C, i, j \in 1..N :
                      IF i <= n /\ j <= n
                      THEN last.aux.trace.H_norm.v[g][c][i][j] = aloneNorm.v[1][c][i][j]
                      ELSE i # j => ZeroNormalized(last.aux.trace.H_norm.v[g][c][i][j])
                /\ \A c \in 1..C, i \in 1..n :
                      last.aux.trace.features.v[g][c][i] = aloneDiag.v[1][c][i]

C4_Witness ==
    /\ MFReturned
    /\ PaddingFree
    /\ last.pre.training
    /\ last.pre.diagonal = "laplacian"
    /\ batch.sizes = <<2, 3>>
    /\ ~IsZero(last.aux.trace.H_pre.v[1][1][1][2])
    /\ last.aux.trace.H_pre.v[1][1][3][3] = Epsilon
    /\ Buffers(mf.matrix_norm) # Buffers(last.pre.matrix_norm)

\* C9 as stated: the carried state a block returns has the shape of the
\* dense matrix of the next block
C9_Original ==
    (MFReturned /\ ~last.aux.matrix_feats.none) =>
        /\ ~last.aux.carry.none
        /\ last.aux.carry.val.shape = DenseShape(last.pre, batch)

(***************************************************************************)
(* Properties of the normalization layers.                                 *)
(***************************************************************************)
IsForward == last.op \in {"sn_forward", "en_forward"}

\* the layer the last call was made on
Layer == IF last.op \in {"sn_forward", "sn_reset", "sn_train"}
         THEN sn ELSE en

EvalForward == IsForward /\ ~last.training

SameInput(a, b) ==
    /\ SameTensor(a.x, b.x)
    /\ a.mask.none = b.mask.none
    /\ a.mask.v = b.mask.v

\* C1: an evaluation-mode forward pass of SwitchNorm1d or EigenvalueNorm
\* leaves running_mean and running_var as they were before the pass, and two
\* evaluation-mode passes in a row on the same input return the same output.
C1_EvalFrozen ==
    /\ [](EvalForward => Buffers(Layer) = last.pre)
    /\ [][(EvalForward /\ EvalForward' /\ last'.op = last.op
             /\ SameInput(last, last'))
          => (last'.out.err = last.out.err
              /\ SameTensor(last'.out.val, last.out.val))]_vars

\* an evaluation-mode pass of EigenvalueNorm on buffers that training moved
C1_Witness ==
    /\ last.op = "en_forward" /\ ~last.training /\ last.out.err = "none"
    /\ nTrain > 0
    /\ Buffers(en) # Buffers(EigenvalueNormInit(ENFeatures, TRUE))

ZerosOf(n) == Strict([f \in 1..n |-> Num(0)])

OnesOf(n) == Strict([f \in 1..n |-> Num(1)])

\* C10 as stated: at construction and after reset_parameters both layers
\* have running mean 0 and running variance 1.
C10_Original ==
    last.op \in {"init", "sn_reset", "en_reset"} =>
        /\ sn.running_mean = ZerosOf(SNFeatures)
        /\ sn.running_var = OnesOf(SNFeatures)
        /\ en.running_mean = ZerosOf(ENFeatures)
        /\ en.running_var = OnesOf(ENFeatures)

\* C10 amended: SwitchNorm1d is constructed with running mean 0 and running
\* variance 0, EigenvalueNorm with running mean 0 and running variance 1;
\* reset_parameters restores exactly these values after any training, and
\* no call other than a training-mode forward pass or reset_parameters
\* changes the buffers.
C10_ResetRestores ==
    /\ last.op \in {"init", "sn_reset"} =>
          /\ sn.running_mean = ZerosOf(SNFeatures)
          /\ sn.running_var = ZerosOf(SNFeatures)
    /\ last.op \in {"init", "en_reset"} =>
          /\ en.running_mean = ZerosOf(ENFeatures)
          /\ en.running_var = OnesOf(ENFeatures)
    /\ (last.op \notin {"init", "sn_reset", "en_reset"}
          /\ ~(IsForward /\ last.training)) =>
          Buffers(Layer) = last.pre

\* reset_parameters of SwitchNorm1d called on buffers that training moved
C10_Witness ==
    /\ last.op = "sn_reset"
    /\ last.pre.running_var # ZerosOf(SNFeatures)
    /\ last.pre.running_mean # ZerosOf(SNFeatures)

\* momentum * old + (1 - momentum) * s
Blend(old, s) ==
    QAdd(QMul(Momentum, old), QMul(QSub(Num(1), Momentum), s))

\* a training-mode forward pass that returned, on a layer that uses the
\* moving average
AveragedPass(op) ==
    /\ last.op = op /\ last.training /\ last.out.err = "none"
    /\ Layer.using_moving_average

\* the trace statistics of channel f, averaged over the graphs of the batch
BatchTrace(x, mask, f, k) ==
    Mean(Strict([b \in 1..x.shape[1] |->
        TraceStats(x.v[b][f], ReformatMask(x, mask)[b], x.shape[3])[k]]))

\* C11: with using_moving_average, a training-mode forward pass of
\* SwitchNorm1d or EigenvalueNorm leaves every running buffer at
\* momentum * old + (1 - momentum) * s (one update, of degree one in the
\* momentum), s being the per-feature batch mean or variance (SwitchNorm1d)
\* or the per-channel trace mean or variance averaged over the batch
\* (EigenvalueNorm).
C11_MovingAverage ==
    /\ AveragedPass("sn_forward") =>
         \A f \in 1..SNFeatures :
            /\ sn.running_mean[f]
                 = Blend(last.pre.running_mean[f], Mean(SNColumn(last.x, f)))
            /\ sn.running_var[f]
                 = Blend(last.pre.running_var[f], Var(SNColumn(last.x, f)))
    /\ AveragedPass("en_forward") =>
         \A f \in 1..ENFeatures :
            /\ en.running_mean[f]
                 = Blend(last.pre.running_mean[f],
                         BatchTrace(last.x, last.mask, f, 1))
            /\ en.running_var[f]
                 = Blend(last.pre.running_var[f],
                         BatchTrace(last.x, last.mask, f, 2))

\* the second training pass of EigenvalueNorm in a row, on a batch of two
\* graphs: the buffers it starts from are already moved
C11_Witness ==
    /\ AveragedPass("en_forward")
    /\ last.x.shape[1] = 2
    /\ last.pre # Buffers(EigenvalueNormInit(ENFeatures, TRUE))
    /\ Buffers(en) # last.pre

(***************************************************************************)
(* Properties of the product block.                                        *)
(***************************************************************************)
PBCalled == last.op = "pb_forward" /\ last.out.err = "none"

\* the linear map of the contracted features alone
LinearAlone ==
    ProductLinear(pb, SymmetricContraction(last.aux.node_feats, batch.node_attrs))

\* row by row, A - B
RowsSub(A, B) ==
    Strict([i \in 1..Len(A) |-> Strict([c \in 1..Len(A[i]) |->
        QSub(A[i][c], B[i][c])])])

\* C12: the product block returns linear(contracted) + sc if and only if
\* use_sc holds and sc is not None, and linear(contracted) alone otherwise;
\* what it receives is what the interaction block returned, whose node
\* features carry no skip term, so that over the pipeline the deferred skip
\* term is in the output once (use_sc and a residual variant) or not at all.
C12_SkipAtMostOnce ==
    /\ PBCalled =>
         /\ (pb.use_sc /\ ~last.aux.sc.none) =>
               /\ last.out.val = Flat(RowsAdd(LinearAlone, last.aux.sc.val.v))
               /\ RowsSub(last.out.val.v, LinearAlone) = SkipOfFeatures(batch)
         /\ ~(pb.use_sc /\ ~last.aux.sc.none) =>
               last.out.val = Flat(LinearAlone)
         /\ last.aux.sc.none <=> ib.variant = "RealAgnosticInteractionBlock"
         /\ last.aux.node_feats =
               ReshapeIrreps(IF ib.variant = "RealAgnosticInteractionBlock"
                             THEN SkipOfMessage(last.aux.message, batch)
                             ELSE last.aux.message)
    /\ (last.op = "ib_forward" /\ focus = "Pipeline" /\ ~last.aux.sc.none) =>
         last.aux.sc.val = Flat(SkipOfFeatures(batch))

\* a residual interaction block before a product block that uses the skip
\* term, on a graph with an edge: the skip term is nonzero and is added
C12_Witness ==
    /\ PBCalled /\ pb.use_sc /\ ~last.aux.sc.none
    /\ NumEdges(batch) > 0
    /\ last.out.val # Flat(LinearAlone)

\* the same pipeline with use_sc off: the skip term is supplied and dropped
C12_WitnessDropped ==
    /\ PBCalled /\ ~pb.use_sc /\ ~last.aux.sc.none
    /\ NumEdges(batch) > 0

(***************************************************************************)
(* Further properties of the matrix function block.                        *)
(***************************************************************************)
\* the forward pass got past the diagonal policy and added the epsilon
PastPolicy == MFCalled /\ \E k \in DOMAIN last.aux.trace.steps :
                              last.aux.trace.steps[k] = "epsilon"

\* C13: in every forward pass that gets past the diagonal policy, the matrix
\* after the epsilon step has the shape of the matrix before it, every
\* diagonal entry (every graph, channel and position, padded ones included)
\* is the entry before plus the one epsilon, and every off-diagonal entry is
\* the entry before.
C13_EpsilonOnDiagonal ==
    PastPolicy =>
        LET H == last.aux.trace.policy
            E == last.aux.trace.H_eps
        IN  /\ E.shape = H.shape
            /\ H.shape = DenseShape(mf, batch)
            /\ \A x \in Index4(H.shape) :
                 IF x[3] = x[4]
                 THEN QSub(E.v[x[1]][x[2]][x[3]][x[4]],
                           H.v[x[1]][x[2]][x[3]][x[4]]) = Epsilon
                 ELSE E.v[x[1]][x[2]][x[3]][x[4]] = H.v[x[1]][x[2]][x[3]][x[4]]

\* a batch of two graphs of different sizes under the learnable policy: the
\* padded diagonal position of the smaller graph holds the epsilon alone,
\* a valid one a nonzero value plus the epsilon
C13_Witness ==
    /\ PastPolicy /\ mf.diagonal = "learnable"
    /\ \E g \in 1..NumGraphs(batch) :
         /\ batch.sizes[g] < PaddedSize(batch)
         /\ last.aux.trace.H_eps.v[g][1][PaddedSize(batch)][PaddedSize(batch)]
              = Epsilon
         /\ ~IsZero(last.aux.trace.policy.v[g][1][1][1])

(***************************************************************************)
(* Structural errors.                                                      *)
(***************************************************************************)
\* the running statistics of the three normalization layers of the block
BlockBuffers(l) ==
    <<Buffers(l.matrix_norm), Buffers(l.normalize_real),
      Buffers(l.normalize_complex), l.normalize_out>>

\* C14: SwitchNorm1d on an input that is not 2-D and EigenvalueNorm on an
\* input that is not 4-D or of another channel count raise ValueError, the
\* block with the normalised_laplacian policy raises NotImplementedError,
\* each whatever the mode; and whenever a forward pass has raised, the
\* running statistics of every normalization layer are what they were
\* before the call.
C14_ErrorsLeaveBuffers ==
    /\ (last.op = "sn_forward" /\ Dim(last.x) # 2) =>
          last.out.err = "ValueError"
    /\ (last.op = "en_forward"
          /\ (Dim(last.x) # 4 \/ last.x.shape[2] # ENFeatures)) =>
          last.out.err = "ValueError"
    /\ (IsForward /\ last.out.err # "none") =>
          /\ Buffers(Layer) = last.pre
          /\ IF last.op = "sn_forward" THEN Dim(last.x) # 2
             ELSE Dim(last.x) # 4 \/ last.x.shape[2] # ENFeatures
    /\ (MFCalled /\ last.pre.diagonal = "normalised_laplacian") =>
          last.out.err = "NotImplementedError"
    /\ (MFCalled /\ last.out.err # "none") =>
          /\ BlockBuffers(mf) = BlockBuffers(last.pre)
          /\ mf = last.pre

\* EigenvalueNorm in training mode, its buffers already moved by an earlier
\* pass, called on a 4-D input with one channel too many
C14_Witness ==
    /\ last.op = "en_forward" /\ last.training
    /\ last.out.err = "ValueError"
    /\ Dim(last.x) = 4
    /\ nTrain > 0
    /\ last.pre # Buffers(EigenvalueNormInit(ENFeatures, TRUE))

\* the block in training mode raising on the normalised Laplacian
C14_WitnessBlock ==
    /\ MFCalled /\ last.pre.training
    /\ last.out.err = "NotImplementedError"

(***************************************************************************)
(* The value of Normalized(c, r, w, b) = c / sqrt(r) * w + b.  The square  *)
(* root of a negative radicand is NaN and so is 0 / 0, and NaN spreads     *)
(* through every later product and sum.  The radicand is a running         *)
(* variance plus eps; its sign is read off at the default momentum 0.997   *)
(* = 1 - 3/1000: a polynomial sum_k c_k m^(k-1) differs from its value     *)
(* at m = 1 by at most (3/1000) * sum_k |c_k| (k - 1).                     *)
(***************************************************************************)
\* the epsilon-free coefficient of momentum^(k-1) in the numerator of a
MomentumCoef(a, k) == Coef(MCoef(a.n, k), 1)

\* the numerator at momentum 1
AtOne(a) == IntSum(Strict([k \in 1..Len(a.n) |-> MomentumCoef(a, k)]))

\* a bound, times 1000 / 3, on how far the numerator at 0.997 is from that
Spread(a) ==
    IntSum(Strict([k \in 1..Len(a.n) |-> Abs(MomentumCoef(a, k)) * (k - 1)]))

\* the variance v of a radicand v + eps is at least zero
VarianceNonNegative(r) ==
    LET v == QSub(r, NormEps)
    IN  /\ ~IsNaN(v)
        /\ \/ IsZero(v)
           \/ AtOne(v) > 0 /\ 1000 * AtOne(v) > 3 * Spread(v)

\* the variance v of a radicand v + eps is at most -eps, or not a number
RadicandNotPositive(r) ==
    LET v == QSub(r, NormEps)
    IN  \/ IsNaN(v)
        \/ /\ ~IsZero(v)
           /\ AtOne(v) < 0
           /\ (1000 * (-AtOne(v)) - 3 * Spread(v)) * 100 >= v.d

\* the value is exactly zero: 0 / sqrt(r) * w + 0 for a positive r
ValueIsZero(e) ==
    /\ IsZero(e.c) /\ IsZero(e.b)
    /\ VarianceNonNegative(e.r)

\* the value is NaN because the radicand is not positive
ValueIsNaN(e) == RadicandNotPositive(e.r)

ENReturned == last.op = "en_forward" /\ last.out.err = "none"

\* position (i, j) of graph b lies in the valid-node block
InBlock(b, i, j) ==
    last.mask.none \/ (last.mask.v[b][i] = 1 /\ last.mask.v[b][j] = 1)

\* the shift and scale of one entry, whatever the sign of the radicand
ShiftOnDiagonal(b, f, i, j) ==
    LET e == last.out.val.v[b][f][i][j]
        x == last.x.v[b][f][i][j]
    IN  /\ e.r = QAdd(en.running_var[f], NormEps)
        /\ e.w = en.weight[f]
        /\ e.b = IF i = j THEN en.bias[f] ELSE Num(0)
        /\ e.c = IF ~InBlock(b, i, j) THEN Num(0)
                 ELSE IF i = j THEN QSub(x, en.running_mean[f])
                 ELSE x

\* the structure alone: mean and bias on the diagonal only, the scale
\* weight / sqrt(running_var + eps) everywhere, a zero numerator outside
\* the valid-node block
C15_Structure ==
    ENReturned =>
        \A x \in Index4(last.x.shape) : ShiftOnDiagonal(x[1], x[2], x[3], x[4])

\* C15 as stated: the structure above, and every off-diagonal entry outside
\* the valid-node block is zero in the output.
C15_Original ==
    ENReturned =>
        \A x \in Index4(last.x.shape) :
            /\ ShiftOnDiagonal(x[1], x[2], x[3], x[4])
            /\ (x[3] # x[4] /\ ~InBlock(x[1], x[3], x[4])) =>
                  ValueIsZero(last.out.val.v[x[1]][x[2]][x[3]][x[4]])

\* a masked-out off-diagonal entry of the output that is NaN
C15_NaNOutside ==
    /\ ENReturned
    /\ \E x \in Index4(last.x.shape) :
          /\ x[3] # x[4] /\ ~InBlock(x[1], x[3], x[4])
          /\ ValueIsNaN(last.out.val.v[x[1]][x[2]][x[3]][x[4]])

\* every radicand of an output has a sign that the bound decides
C15_SignDecided ==
    ENReturned =>
        \A x \in Index4(last.x.shape) :
            LET r == last.out.val.v[x[1]][x[2]][x[3]][x[4]].r
            IN  VarianceNonNegative(r) \/ RadicandNotPositive(r)

(***************************************************************************)
(* The trace statistics of EigenvalueNorm.                                 *)
(***************************************************************************)
\* the valid nodes of graph b of the last call
ValidNodes(b) ==
    {i \in 1..last.x.shape[3] : last.mask.none \/ last.mask.v[b][i] = 1}

\* the sum of q[i] over the nodes i of S
RECURSIVE SumOfNodes(_, _)
SumOfNodes(S, q) ==
    IF S = {} THEN Num(0)
    ELSE LET i == CHOOSE i \in S : TRUE
         IN  QAdd(q[i], SumOfNodes(S \ {i}, q))

\* trace(M) over the valid nodes
TraceOver(S, M) == SumOfNodes(S, Strict([i \in 1..Len(M) |-> M[i][i]]))

\* trace(M^2) over the valid nodes i, the inner index k over the nodes K
TraceSquareOver(S, K, M) ==
    SumOfNodes(S, Strict([i \in 1..Len(M) |->
        SumOfNodes(K, Strict([k \in 1..Len(M) |-> QMul(M[i][k], M[k][i])]))]))

\* mean = trace(M) / n
StatedMean(b, f) ==
    QDivInt(TraceOver(ValidNodes(b), last.x.v[b][f]), Cardinality(ValidNodes(b)))

\* variance = (trace(M^2) - trace(M)^2 / n) / (n - 1), the divisor 1 for n = 1
StatedVariance(b, f) ==
    LET S == ValidNodes(b)
        n == Cardinality(S)
        M == last.x.v[b][f]
        t == TraceOver(S, M)
    IN  QDivInt(QSub(TraceSquareOver(S, 1..Len(M), M), QDivInt(QMul(t, t), n)),
                IF n = 1 THEN 1 ELSE n - 1)

\* the average over the graphs of the batch
OverBatch(s) == Mean(Strict([b \in 1..last.x.shape[1] |-> s[b]]))

IsDiagonal(M) == \A i, k \in 1..Len(M) : i # k => IsZero(M[i][k])

\* no entry of M couples a valid node to a padded one
Uncoupled(S, M) ==
    \A i \in S, k \in (1..Len(M)) \ S : IsZero(M[i][k]) \/ IsZero(M[k][i])

\* the valid diagonal entries of M, in order
RECURSIVE ValidDiagonal(_, _, _)
ValidDiagonal(S, M, i) ==
    IF i > Len(M) THEN <<>>
    ELSE (IF i \in S THEN <<M[i][i]>> ELSE <<>>) \o ValidDiagonal(S, M, i + 1)

\* C16: for every graph of the batch _mean_and_variance_trace computes
\* trace(M) / n and (trace(M^2) - trace(M)^2 / n) / (n - 1), the traces
\* summed over the n valid nodes and the divisor 1 when n = 1, and returns
\* their averages over the graphs: a training-mode pass moves the buffers
\* by exactly these two numbers.  Where no entry couples a valid node to a
\* padded one trace(M^2) is the trace of the square of the valid block, and
\* for a diagonal M with n >= 2 the variance is the Bessel-corrected sample
\* variance of the valid diagonal entries.
C16_TraceStatistics ==
    ENReturned =>
      \A f \in 1..ENFeatures :
        /\ \A b \in 1..last.x.shape[1] :
             LET S == ValidNodes(b)
                 M == last.x.v[b][f]
                 st == TraceStats(M, ReformatMask(last.x, last.mask)[b], Len(M))
             IN  /\ st = <<StatedMean(b, f), StatedVariance(b, f)>>
                 /\ Uncoupled(S, M) =>
                      TraceSquareOver(S, 1..Len(M), M) = TraceSquareOver(S, S, M)
                 /\ (IsDiagonal(M) /\ Cardinality(S) >= 2) =>
                      st[2] = Var(ValidDiagonal(S, M, 1))
        /\ MeanAndVarianceTrace(last.x, ReformatMask(last.x, last.mask))[f]
             = << OverBatch(Strict([b \in 1..last.x.shape[1] |-> StatedMean(b, f)])),
                  OverBatch(Strict([b \in 1..last.x.shape[1] |->
                                       StatedVariance(b, f)])) >>
        /\ last.training =>
             LET m == OverBatch(Strict([b \in 1..last.x.shape[1] |->
                                           StatedMean(b, f)]))
                 v == OverBatch(Strict([b \in 1..last.x.shape[1] |->
                                           StatedVariance(b, f)]))
             IN  IF en.using_moving_average
                 THEN /\ en.running_mean[f] = Blend(last.pre.running_mean[f], m)
                      /\ en.running_var[f] = Blend(last.pre.running_var[f], v)
                 ELSE /\ en.running_mean[f] = QAdd(last.pre.running_mean[f], m)
                      /\ en.running_var[f] = QAdd(last.pre.running_var[f], v)

\* a training-mode pass over a batch of a graph with two valid nodes and a
\* padded graph with one: both divisors and the batch average are in play
C16_Witness ==
    /\ ENReturned /\ last.training
    /\ last.x.shape[1] = 2
    /\ Cardinality(ValidNodes(1)) = 2
    /\ Cardinality(ValidNodes(2)) = 1
    /\ ~IsZero(StatedVariance(1, 1))
    /\ en.running_var # last.pre.running_var

\* a diagonal matrix with two valid nodes and different diagonal entries
C16_WitnessDiagonal ==
    /\ ENReturned
    /\ IsDiagonal(last.x.v[1][1]) /\ Cardinality(ValidNodes(1)) >= 2
    /\ ~IsZero(Var(ValidDiagonal(ValidNodes(1), last.x.v[1][1], 1)))

(***************************************************************************)
(* The carried matrix state.                                               *)
(***************************************************************************)
\* the call just made is stacked on the call before: it received what that
\* call returned as its matrix state
Stacked ==
    /\ MFReturned /\ MFCalled'
    /\ last'.aux.matrix_feats = last.aux.carry

\* C17: a forward pass that returns hands on None exactly when it was given
\* matrix_feats = None, and a pass that raises hands on nothing; so a block
\* stacked on a block that returned None is given None and, if it returns,
\* returns None again.
C17_NoneStaysNone ==
    /\ [](MFReturned => (last.aux.carry.none <=> last.aux.matrix_feats.none))
    /\ []((MFCalled /\ ~MFReturned) => last.aux.carry.none)
    /\ [][(Stacked /\ last.aux.matrix_feats.none)
            => (last'.aux.matrix_feats.none /\ last'.aux.carry.none)]_vars

\* the second block of a stack whose first block was called with None, in
\* training mode, returning None after a full forward pass
C17_Witness ==
    /\ MFReturned /\ last.aux.matrix_feats.none /\ last.aux.carry.none
    /\ nTrain = 2
    /\ last.pre.training
    /\ last.aux.trace.features # NoTensor

(***************************************************************************)
(* Which statistics normalise the output.                                  *)
(***************************************************************************)
\* the layer with its running statistics replaced by others
WithBuffers(l, buffers) ==
    [l EXCEPT !.running_mean = buffers.running_mean,
              !.running_var = buffers.running_var]

\* the layer as it was before the last call, in the mode of that call
LayerBefore(l) ==
    [WithBuffers(l, last.pre) EXCEPT !.training = last.training]

\* the statistics of the current batch alone, as buffers of EigenvalueNorm
BatchStatistics ==
    [running_mean |-> Strict([f \in 1..ENFeatures |->
                         BatchTrace(last.x, last.mask, f, 1)]),
     running_var  |-> Strict([f \in 1..ENFeatures |->
                         BatchTrace(last.x, last.mask, f, 2)])]

\* buffers no pass produces
OtherBuffers(n) ==
    [running_mean |-> Strict([f \in 1..n |-> Num(7)]),
     running_var  |-> Strict([f \in 1..n |-> Num(9)])]

SNReturned == last.op = "sn_forward" /\ last.out.err = "none"

\* C18: in both modes the output of EigenvalueNorm is computed from the
\* running mean and variance as the pass leaves them (in training mode
\* after the update of this pass); the output of SwitchNorm1d in training
\* mode is computed from the statistics of the current batch and is the
\* same whatever the running buffers hold, while in evaluation mode it is
\* computed from the buffers.
C18_WhichStatistics ==
    /\ ENReturned =>
         last.out.val = EigenvalueNormOutput(en, last.x, last.mask)
    /\ (ENReturned /\ ~last.training) => Buffers(en) = last.pre
    /\ (SNReturned /\ last.training) =>
         /\ last.out.val
              = SwitchNorm1dOutput(
                    WithBuffers(LayerBefore(sn), OtherBuffers(SNFeatures)),
                    last.x)
         /\ \A b \in 1..last.x.shape[1], f \in 1..SNFeatures :
              last.out.val.v[b][f].c
                = QSub(last.x.v[b][f],
                       QAdd(QMul(SwitchBlend[1], Mean(last.x.v[b])),
                            QMul(SwitchBlend[2], Mean(SNColumn(last.x, f)))))
    /\ (SNReturned /\ ~last.training) =>
         \A b \in 1..last.x.shape[1], f \in 1..SNFeatures :
              last.out.val.v[b][f].c
                = QSub(last.x.v[b][f],
                       QAdd(QMul(SwitchBlend[1], Mean(last.x.v[b])),
                            QMul(SwitchBlend[2], last.pre.running_mean[f])))

\* a training-mode pass of EigenvalueNorm whose output differs both from
\* the output under the buffers before the pass and from the output under
\* the statistics of the batch alone
C18_Witness ==
    /\ ENReturned /\ last.training
    /\ Buffers(en) # last.pre
    /\ last.out.val # EigenvalueNormOutput(LayerBefore(en), last.x, last.mask)
    /\ last.out.val
         # EigenvalueNormOutput(WithBuffers(en, BatchStatistics), last.x, last.mask)

\* a training-mode pass of SwitchNorm1d on buffers that an earlier pass moved
C18_WitnessSwitch ==
    /\ SNReturned /\ last.training
    /\ last.pre # Buffers(SwitchNorm1dInit(SNFeatures, TRUE))
    /\ last.x.shape[1] >= 2

(***************************************************************************)
(* A diagonal value that names no policy.                                  *)
(***************************************************************************)
KnownPolicies == {"learnable", "laplacian", "normalised_laplacian"}

UnknownPolicy == MFCalled /\ last.pre.diagonal \notin KnownPolicies

\* C19: a block built with a diagonal value that names no policy exists
\* (construction does not look at the value), and its forward pass does not
\* fail at the policy step: the matrix after the step is the scattered edge
\* matrix itself, the epsilon is added to it, and a pass called with
\* matrix_feats = None runs to its end and returns.
C19_UnknownPolicyPasses ==
    /\ (focus = "MatrixFunctionBlock" /\ last.op = "init") =>
          mf = MatrixFunctionSetTraining(
                  MatrixFunctionBlockInit(
                      <<mf.diagonal, mf.num_features, mf.num_poles,
                        mf.avg_num_neighbors, mf.learnable_resolvent,
                        mf.skip_connection, mf.g_scaling>>),
                  mf.training)
    /\ UnknownPolicy =>
          /\ last.out.err # "NotImplementedError"
          /\ PastPolicy
          /\ last.aux.trace.policy = last.aux.trace.W
          /\ last.aux.trace.H_eps = AddEpsilon(last.aux.trace.W)
          /\ last.aux.matrix_feats.none =>
                /\ last.out.err = "none"
                /\ last.aux.trace.features # NoTensor

\* the block with diagonal = "diagonal" on a graph with edges: the matrix
\* it normalises has the edge values off the diagonal and the epsilon alone
\* on it
C19_Witness ==
    /\ UnknownPolicy /\ MFReturned
    /\ last.pre.diagonal = "diagonal"
    /\ Len(batch.edges) > 0
    /\ ~IsZero(last.aux.trace.W.v[1][1][1][2])
    /\ last.aux.trace.H_eps.v[1][1][1][1] = Epsilon

====
